---- MODULE Spec2Model ----
(***************************************************************************)
(* A model of the tilemap renderer of vscode-rm: the batch buffer          *)
(* (Tilemap of @pixi/tilemap), the composite layer (CompositeTilemap),     *)
(* the tile-ID decoder and the viewport repaint controller                 *)
(* (ShaderTilemap).                                                        *)
(*                                                                         *)
(* Several specifications share this module.  Each one drives one part of  *)
(* the program and leaves the variables of the other parts unchanged:      *)
(*   SpecLayer  one CompositeTilemap under tileset()/tile()/clear()        *)
(*   SpecGeom   one batch buffer under tile()/clear() and geometry builds  *)
(*   SpecDraw   ShaderTilemap._drawTile on one composite layer             *)
(*   Spec       the ShaderTilemap renderer with its 9 composite layers     *)
(*   SpecScene  the painting of small scenes, repaint by repaint and cell  *)
(*              by cell                                                    *)
(*   SpecRead   the map reading of the abstract class Tilemap              *)
(*   SpecAnim   one batch buffer with animated tiles under the clock       *)
(*   SpecIds    the composition and decomposition of autotile IDs          *)
(*   SpecRoute  the routing of the planes of a cell to the layers          *)
(*   SpecClock  the animation clock of the renderer under updateDelta      *)
(*   SpecPipe   one batch buffer under tile()/clear() and the render pipe  *)
(*   SpecOffset one CompositeTilemap under setTileAnim() as well           *)
(*   SpecBounds one batch buffer, its bounds and containsPoint()           *)
(*   SpecPipes  one batch buffer drawn by two render pipes                 *)
(*   SpecView   the map-tile webview of the extension host                 *)
(***************************************************************************)
EXTENDS Integers, Sequences, FiniteSets, TLC

VARIABLES
    \* ---- SpecLayer: one composite layer
    layer,        \* the CompositeTilemap: [children, shadowId]
    fresh,        \* how many image resources `new Texture()` has created
    lcall,        \* the last call made on the layer and whether it threw
    shadowUsed,   \* whether tile(-1, ...) was ever called on the layer
    \* ---- SpecGeom: one batch buffer and the geometries built from it
    tilemap,      \* the batch buffer (Tilemap)
    kept,         \* the geometry of the first build, which the caller keeps
    latest,       \* the newest geometry made after it, if any
    built,        \* which of the two the last build returned ("kept"/"latest")
    gcall,        \* the last call made on the buffer
    \* ---- SpecDraw: _drawTile on one composite layer
    dlayer,       \* the composite layer drawn into
    dflags,       \* the name of the tileset flags array in use
    dcall,        \* the last call: the tile ID drawn, whether it threw, commands added
    \* ---- Spec: the viewport repaint controller (ShaderTilemap)
    bitmaps,          \* the tileset images, "undefined" where one is missing
    flags,            \* the name of the tileset flags array in use
    mapData,          \* [defined, width, height, data] as set by setData
    origin,           \* the origin _repaint reads
    scrollOrigin,     \* _scrollOrigin
    horizontalWrap,
    verticalWrap,
    paintAll,
    width,            \* _width
    height,           \* _height
    lastBitmapLength, \* _lastBitmapLength
    lastStart,        \* _lastStartX, _lastStartY
    lowerLayer,       \* four composite layers
    upperLayer,       \* four composite layers
    shadowLayer,      \* one composite layer
    position,         \* the position given to all nine layers
    rcall,            \* the last host call and what it did
    changes,          \* how many times the host changed an input
    \* ---- SpecRoute: the overridable predicate of the renderer
    overpass,         \* what _isOverpassPosition returns
    \* ---- SpecClock: the animation clock of the renderer
    animationCount,   \* the CounterInterpolator: [bound, start, inteval, current, cumulated]
    animationFrame,   \* the frame updateDelta last read off the counter
    layerAnim,        \* the field tileAnim of the lower and upper layers
    elapsed,          \* history: the sum of the times passed to updateDelta
    \* ---- SpecPipe: the TilemapPipe's record for the batch buffer
    pipe,             \* [mesh, texture, ret]: the batchable mesh and the last result
    \* ---- SpecOffset: the animation offset of the composite layer
    compositeTileAnim, \* the field tileAnim of the CompositeTilemap `layer`
    \* ---- SpecBounds: the view bounds of the batch buffer `tilemap`
    viewBounds,       \* _bounds, which updateBounds() fills in
    hit,              \* the last containsPoint(): [point, ret]
    \* ---- SpecPipes: two TilemapPipes that track the batch buffer `tilemap`
    pipes,            \* per pipe: [data, geometry, mesh, attached]
    submitted,        \* the mesh last handed to a batcher: [pipe, geometry]
    \* ---- SpecView: ColorsViewProvider and the Blackboard
    activeMapName,    \* Blackboard._activeMapName
    listening,        \* "unresolved", or whether `refresh` listens yet: "no", "yes"
    builds,           \* the refresh() calls in flight, oldest first
    html,             \* webview.html: what it was built from
    nameSets          \* how many times the host set activeMapName

layerVars == <<layer, fresh, lcall, shadowUsed>>
geomVars == <<tilemap, kept, latest, built, gcall>>
drawVars == <<dlayer, dflags, dcall>>
rendVars == <<bitmaps, flags, mapData, origin, scrollOrigin, horizontalWrap, verticalWrap,
              paintAll, width, height, lastBitmapLength, lastStart, lowerLayer, upperLayer,
              shadowLayer, position, rcall, changes>>
routeVars == <<overpass>>
clockVars == <<animationCount, animationFrame, layerAnim, elapsed>>
\* The variables that only the later specifications drive.
pipeVars == <<pipe>>
offsetVars == <<compositeTileAnim>>
boundsVars == <<viewBounds, hit>>
pipesVars == <<pipes, submitted>>
viewVars == <<activeMapName, listening, builds, html, nameSets>>
otherVars == <<routeVars, clockVars, pipeVars, offsetVars, boundsVars, pipesVars, viewVars>>

vars == <<layer, fresh, lcall, shadowUsed, tilemap, kept, latest, built, gcall,
          dlayer, dflags, dcall,
          bitmaps, flags, mapData, origin, scrollOrigin, horizontalWrap, verticalWrap,
          paintAll, width, height, lastBitmapLength, lastStart, lowerLayer, upperLayer,
          shadowLayer, position, rcall, changes, overpass,
          animationCount, animationFrame, layerAnim, elapsed, pipe,
          compositeTileAnim, viewBounds, hit, pipes, submitted,
          activeMapName, listening, builds, html, nameSets>>

\* F applied to the value of v, with v computed once.
Then(v, F(_)) == CHOOSE out \in {F(x) : x \in {v}} : TRUE

(***************************************************************************)
(* Small helpers.                                                          *)
(***************************************************************************)
Min(a, b) == IF a <= b THEN a ELSE b
Max(a, b) == IF a >= b THEN a ELSE b

\* An optional field of a JavaScript options object.
Has(o, k) == k \in DOMAIN o
Opt(o, k, d) == IF k \in DOMAIN o THEN o[k] ELSE d

(***************************************************************************)
(* Textures.  A texture is a frame (fx, fy, ow, oh) on an image resource   *)
(* (`source`, of size sw x sh); several textures may share one resource.   *)
(* The resource "undefined" stands for a missing texture.                  *)
(***************************************************************************)
NoTexture == [source |-> "undefined", fx |-> 0, fy |-> 0, ow |-> 0, oh |-> 0, sw |-> 0, sh |-> 0]

\* CompositeTilemap.shadowTexture: a 1x1 buffer image labelled SHADOW.
shadowTexture == [source |-> "SHADOW", fx |-> 0, fy |-> 0, ow |-> 1, oh |-> 1, sw |-> 1, sh |-> 1]

\* The resources `new Texture()` creates, one new resource per call.
FreshNames == <<"fresh1", "fresh2">>

\* new Texture(): an empty 1x1 texture on a resource of its own.
NewTexture(k) ==
    [source |-> FreshNames[k], fx |-> 0, fy |-> 0, ow |-> 1, oh |-> 1, sw |-> 1, sh |-> 1]

\* Texture.from(name): the texture of the whole image called `name`.
TextureFrom(name) ==
    [source |-> name, fx |-> 0, fy |-> 0, ow |-> 96, oh |-> 96, sw |-> 96, sh |-> 96]

\* An image resource handed to tileset() in place of a texture: it is its
\* own `source`, and stands for the whole image.
SourceAsTexture(src) ==
    [source |-> src, fx |-> 0, fy |-> 0, ow |-> 768, oh |-> 768, sw |-> 768, sh |-> 768]

(***************************************************************************)
(* Bounds (PIXI.Bounds): empty, or an axis-aligned box.                    *)
(***************************************************************************)
EmptyBounds == [empty |-> TRUE, minX |-> 0, minY |-> 0, maxX |-> 0, maxY |-> 0]

\* A variant of addFrame that takes the frame for the whole box.
addFrame_Replace(b, x0, y0, x1, y1) ==
    [empty |-> FALSE, minX |-> Min(x0, x1), minY |-> Min(y0, y1),
     maxX |-> Max(x0, x1), maxY |-> Max(y0, y1)]

addFrame(b, x0, y0, x1, y1) ==
    IF b.empty
    THEN [empty |-> FALSE, minX |-> Min(x0, x1), minY |-> Min(y0, y1),
          maxX |-> Max(x0, x1), maxY |-> Max(y0, y1)]
    ELSE [empty |-> FALSE,
          minX |-> Min(b.minX, Min(x0, x1)), minY |-> Min(b.minY, Min(y0, y1)),
          maxX |-> Max(b.maxX, Max(x0, x1)), maxY |-> Max(b.maxY, Max(y0, y1))]

(***************************************************************************)
(* The batch buffer: class Tilemap of @pixi/tilemap.                       *)
(***************************************************************************)
\* new Tilemap(baseTexture)
NewTilemap(baseTexture) ==
    [baseTexture |-> baseTexture,
     pointsBuf |-> <<>>,
     tilemapBounds |-> EmptyBounds,
     hasAnimatedTile |-> FALSE,
     didTilemapUpdate |-> TRUE,
     tileAnim |-> [x |-> 0, y |-> 0]]

\* The PointStruct that Tilemap.tile pushes.  `a || b` takes b when a is
\* missing or 0.
PointOf(texture, x, y, options) ==
    LET u  == IF Has(options, "u") /\ options.u # 0 THEN options.u ELSE texture.fx
        v  == IF Has(options, "v") /\ options.v # 0 THEN options.v ELSE texture.fy
        tw == IF Has(options, "tileWidth") /\ options.tileWidth # 0
              THEN options.tileWidth ELSE texture.ow
        th == IF Has(options, "tileHeight") /\ options.tileHeight # 0
              THEN options.tileHeight ELSE texture.oh
    IN  [u |-> u, v |-> v, x |-> x, y |-> y,
         tileWidth |-> tw, tileHeight |-> th,
         rotate |-> Opt(options, "rotate", 0),
         animX |-> Opt(options, "animX", 0),
         animY |-> Opt(options, "animY", 0),
         animCountX |-> Opt(options, "animCountX", 1024),
         animCountY |-> Opt(options, "animCountY", 1024),
         animDivisor |-> Opt(options, "animDivisor", 1),
         alpha |-> Opt(options, "alpha", 1)]

\* Tilemap.tile(texture, x, y, options); texture NoTexture is `undefined`.
TilemapTile(tm, texture, x, y, options) ==
    LET tex == IF texture = NoTexture THEN tm.baseTexture ELSE texture
        p   == PointOf(tex, x, y, options)
    IN  [tm EXCEPT
           !.hasAnimatedTile = @ \/ Opt(options, "animX", 0) > 0
                                 \/ Opt(options, "animY", 0) > 0,
           !.pointsBuf = Append(@, p),
           !.tilemapBounds = addFrame(@, x, y, x + p.tileWidth, y + p.tileHeight),
           !.didTilemapUpdate = TRUE]

\* Tilemap.setTileAnim(value)
TilemapSetTileAnim(tm, value) ==
    IF tm.tileAnim.x # value.x \/ tm.tileAnim.y # value.y
    THEN [tm EXCEPT !.tileAnim = value,
                    !.didTilemapUpdate = @ \/ tm.hasAnimatedTile]
    ELSE tm

\* A variant of TilemapClear that leaves the dirty flag as it is.
TilemapClear_NoDirty(tm) ==
    [tm EXCEPT !.pointsBuf = <<>>,
               !.tilemapBounds = EmptyBounds,
               !.hasAnimatedTile = FALSE]

\* Tilemap.clear()
TilemapClear(tm) ==
    [tm EXCEPT !.pointsBuf = <<>>,
               !.tilemapBounds = EmptyBounds,
               !.hasAnimatedTile = FALSE,
               !.didTilemapUpdate = TRUE]

(***************************************************************************)
(* Geometry building: Tilemap._computeGeometriesBatched.  A geometry holds *)
(* three typed arrays; `cap` is the size (in floats) of the allocation     *)
(* behind `positions`, of which the array may be a shorter view.  A uv     *)
(* coordinate is the fraction <<numerator, denominator>>.  tileAnim is     *)
(* kept in hundredths.                                                     *)
(***************************************************************************)
NoGeometry == [none |-> TRUE, positions |-> <<>>, uvs |-> <<>>, indices |-> <<>>, cap |-> 0]

\* The remainder of JavaScript's %, which takes the sign of the dividend.
JsRem(a, n) == IF a >= 0 THEN a % n ELSE -((-a) % n)

\* A variant of currentFrame that truncates: Math.floor(tileAnim / animDivisor).
currentFrame_Truncating(anim, animDivisor) == anim \div (100 * animDivisor)

\* Math.floor(tileAnim / animDivisor + 0.5), tileAnim in hundredths.
currentFrame(anim, animDivisor) == (2 * anim + 100 * animDivisor) \div (200 * animDivisor)

animOffsetX(point, tileAnim) ==
    IF point.animX # 0
    THEN point.animX * JsRem(currentFrame(tileAnim.x, point.animDivisor), point.animCountX)
    ELSE 0

animOffsetY(point, tileAnim) ==
    IF point.animY # 0
    THEN point.animY * JsRem(currentFrame(tileAnim.y, point.animDivisor), point.animCountY)
    ELSE 0

\* Element k (0-based) of the positions the loop writes.
PositionAt(tm, k) ==
    LET point == tm.pointsBuf[(k \div 8) + 1]
        c == k % 8
    IN  IF c \in {0, 6} THEN point.x
        ELSE IF c \in {2, 4} THEN point.x + point.tileWidth
        ELSE IF c \in {1, 3} THEN point.y
        ELSE point.y + point.tileHeight

\* Element k (0-based) of the uvs the loop writes.
UvAt(tm, k) ==
    LET point == tm.pointsBuf[(k \div 8) + 1]
        c == k % 8
        u == point.u + animOffsetX(point, tm.tileAnim)
        v == point.v + animOffsetY(point, tm.tileAnim)
    IN  IF c \in {0, 6} THEN <<u, tm.baseTexture.sw>>
        ELSE IF c \in {2, 4} THEN <<u + point.tileWidth, tm.baseTexture.sw>>
        ELSE IF c \in {1, 3} THEN <<v, tm.baseTexture.sh>>
        ELSE <<v + point.tileHeight, tm.baseTexture.sh>>

\* Element k (0-based) of the indices the loop writes.
IndexAt(k) ==
    LET pntBase == (k \div 6) * 4
        c == k % 6
    IN  IF c \in {0, 3} THEN pntBase
        ELSE IF c = 1 THEN pntBase + 1
        ELSE IF c \in {2, 4} THEN pntBase + 2
        ELSE pntBase + 3

\* A variant of computeGeometriesBatched that reuses a larger geometry
\* without taking the subrange.
computeGeometriesBatched_NoShrink(tm, geometry) ==
    LET n == Len(tm.pointsBuf)
        fresh_ == geometry.none \/ Len(geometry.positions) <= n * 8
        lenP == IF fresh_ THEN n * 8 ELSE Len(geometry.positions)
        lenU == IF fresh_ THEN n * 8 ELSE Len(geometry.uvs)
        lenI == IF fresh_ THEN n * 6 ELSE Len(geometry.indices)
    IN  [isNew |-> fresh_,
         geometry |->
           [none |-> FALSE,
            positions |-> [k \in 1..lenP |->
                             IF k <= n * 8 THEN PositionAt(tm, k - 1)
                             ELSE IF fresh_ THEN 0 ELSE geometry.positions[k]],
            uvs |-> [k \in 1..lenU |->
                       IF k <= n * 8 THEN UvAt(tm, k - 1)
                       ELSE IF fresh_ THEN <<0, 1>> ELSE geometry.uvs[k]],
            indices |-> [k \in 1..lenI |->
                           IF k <= n * 6 THEN IndexAt(k - 1)
                           ELSE IF fresh_ THEN 0 ELSE geometry.indices[k]],
            cap |-> IF fresh_ THEN n * 8 ELSE geometry.cap]]

\* Tilemap._computeGeometriesBatched(geometry).  A new geometry is made when
\* none is given or the given one is not longer than needed; otherwise the
\* given one is kept and its arrays are cut to subrange views.  The loop
\* then writes every quad; a write past the end of an array is dropped.
\* Result: the geometry returned and whether it is a new object.
computeGeometriesBatched(tm, geometry) ==
    LET n == Len(tm.pointsBuf)
        fresh_ == geometry.none \/ Len(geometry.positions) <= n * 8
        lenP == IF fresh_ THEN n * 8 ELSE Min(Len(geometry.positions), n * 8)
        lenU == IF fresh_ THEN n * 8 ELSE Min(Len(geometry.uvs), n * 8)
        lenI == IF fresh_ THEN n * 6 ELSE Min(Len(geometry.indices), n * 6)
    IN  [isNew |-> fresh_,
         geometry |->
           [none |-> FALSE,
            positions |-> [k \in 1..lenP |->
                             IF k <= n * 8 THEN PositionAt(tm, k - 1)
                             ELSE IF fresh_ THEN 0 ELSE geometry.positions[k]],
            uvs |-> [k \in 1..lenU |->
                       IF k <= n * 8 THEN UvAt(tm, k - 1)
                       ELSE IF fresh_ THEN <<0, 1>> ELSE geometry.uvs[k]],
            indices |-> [k \in 1..lenI |->
                           IF k <= n * 6 THEN IndexAt(k - 1)
                           ELSE IF fresh_ THEN 0 ELSE geometry.indices[k]],
            cap |-> IF fresh_ THEN n * 8 ELSE geometry.cap]]


(***************************************************************************)
(* The composite layer: class CompositeTilemap.  `children` is 1-based     *)
(* here; `shadowId` keeps the program's 0-based index (-1: no shadow       *)
(* buffer yet).                                                            *)
(***************************************************************************)
NewComposite == [children |-> <<>>, shadowId |-> -1]

\* children[i] of the program (0-based); FALSE-guarded by ChildExists.
ChildExists(lay, i) == i >= 0 /\ i < Len(lay.children)
Child(lay, i) == lay.children[i + 1]

\* A variant of TilesetMismatch whose loop stops one index early.
TilesetMismatch_OffByOne(lay, tileTextures) ==
    \E i \in 1..(Min(Len(lay.children), Len(tileTextures)) - 1) :
        lay.children[i].baseTexture.source # tileTextures[i].source

\* The reassignment check of tileset(): some existing buffer at an index
\* below both lengths is bound to another resource than the list names.
TilesetMismatch(lay, tileTextures) ==
    \E i \in 1..Min(Len(lay.children), Len(tileTextures)) :
        lay.children[i].baseTexture.source # tileTextures[i].source

\* How many entries of the list beyond the existing buffers are missing
\* (each makes tileset() call `new Texture()`).
RECURSIVE MissingUpTo(_, _, _)
MissingUpTo(tileTextures, from, to) ==
    IF to < from THEN 0
    ELSE MissingUpTo(tileTextures, from, to - 1)
         + (IF tileTextures[to] = NoTexture THEN 1 ELSE 0)

\* CompositeTilemap.tileset(tileTextures), `made` resources created so far.
\* Result: the layer, the new resource count, and whether it threw.
CompositeTileset(lay, tileTextures, made) ==
    LET len1 == Len(lay.children)
        len2 == Len(tileTextures)
    IN  IF TilesetMismatch(lay, tileTextures)
        THEN [layer |-> lay, fresh |-> made, err |-> TRUE]
        ELSE [layer |-> [lay EXCEPT !.children =
                  @ \o [j \in 1..Max(len2 - len1, 0) |->
                          NewTilemap(
                            IF tileTextures[len1 + j] = NoTexture
                            THEN NewTexture(made + MissingUpTo(tileTextures, len1 + 1, len1 + j))
                            ELSE tileTextures[len1 + j])]],
              fresh |-> made + MissingUpTo(tileTextures, len1 + 1, len2),
              err |-> FALSE]

\* A variant of CompositeClear that also forgets the shadow buffer.
CompositeClear_ForgetShadow(lay) ==
    [children |-> <<>> \o [i \in 1..Len(lay.children) |-> TilemapClear(lay.children[i])],
     shadowId |-> -1]

\* CompositeTilemap.clear()
CompositeClear(lay) ==
    [lay EXCEPT !.children =
        <<>> \o [i \in 1..Len(lay.children) |-> TilemapClear(lay.children[i])]]

\* A variant of CompositeTileShadow that never looks at shadowId.
CompositeTileShadow_NoReuse(lay, x, y, options) ==
    [children |-> Append(lay.children,
                         TilemapTile(NewTilemap(shadowTexture), NoTexture, x, y, options)),
     shadowId |-> Len(lay.children)]

\* tile(-1, ...): the shadow branch.
CompositeTileShadow(lay, x, y, options) ==
    IF lay.shadowId = -1
    THEN [children |-> Append(lay.children,
                              TilemapTile(NewTilemap(shadowTexture), NoTexture, x, y, options)),
          shadowId |-> Len(lay.children)]
    ELSE [lay EXCEPT !.children[lay.shadowId + 1] = TilemapTile(@, NoTexture, x, y, options)]

\* A variant of CompositeTileSlot without the fallback to buffer 0.
CompositeTileSlot_NoFallback(lay, childIndex, x, y, options) ==
    IF ChildExists(lay, childIndex)
    THEN [lay EXCEPT !.children[childIndex + 1] = TilemapTile(@, NoTexture, x, y, options)]
    ELSE lay

\* tile(n, ...) with a number n other than -1: the slot branch.
CompositeTileSlot(lay, childIndex, x, y, options) ==
    IF ChildExists(lay, childIndex)
    THEN [lay EXCEPT !.children[childIndex + 1] = TilemapTile(@, NoTexture, x, y, options)]
    ELSE IF ChildExists(lay, 0)
         THEN [lay EXCEPT !.children[1] = TilemapTile(@, NoTexture, x, y, options)]
         ELSE lay

\* tile(texture, ...): the texture branch (a string is resolved first).
CompositeTileTexture(lay, tileTexture, x, y, options) ==
    LET hits == {i \in 1..Len(lay.children) :
                    lay.children[i].baseTexture.source = tileTexture.source}
    IN  IF hits # {}
        THEN LET i == CHOOSE k \in hits : \A m \in hits : k <= m
             IN  [lay EXCEPT !.children[i] = TilemapTile(@, tileTexture, x, y, options)]
        ELSE [lay EXCEPT !.children =
                  Append(@, TilemapTile(NewTilemap(tileTexture), tileTexture, x, y, options))]

\* A tile reference: a number, a texture or a string.
NumRef(n) == [kind |-> "num", n |-> n, tex |-> NoTexture, name |-> ""]
TexRef(t) == [kind |-> "tex", n |-> 0, tex |-> t, name |-> ""]
StrRef(s) == [kind |-> "str", n |-> 0, tex |-> NoTexture, name |-> s]

\* CompositeTilemap.tile(tileTexture, x, y, options)
CompositeTile(lay, ref, x, y, options) ==
    IF ref.kind = "num" /\ ref.n = -1
    THEN CompositeTileShadow(lay, x, y, options)
    ELSE IF ref.kind = "num"
    THEN CompositeTileSlot(lay, ref.n, x, y, options)
    ELSE CompositeTileTexture(lay,
             IF ref.kind = "str" THEN TextureFrom(ref.name) ELSE ref.tex,
             x, y, options)

(***************************************************************************)
(* The tile-ID decoder: the static helpers of the abstract class Tilemap   *)
(* and the draw methods of ShaderTilemap.                                  *)
(***************************************************************************)
TILE_ID_B == 0
TILE_ID_C == 256
TILE_ID_D == 512
TILE_ID_E == 768
TILE_ID_A5 == 1536
TILE_ID_A1 == 2048
TILE_ID_A2 == 2816
TILE_ID_A3 == 4352
TILE_ID_A4 == 5888
TILE_ID_MAX == 8192

\* The defaults of Tilemap._tileWidth and Tilemap._tileHeight.
tileWidth == 48
tileHeight == 48

isVisibleTile(tileId) == tileId > 0 /\ tileId < TILE_ID_MAX
isAutotile(tileId) == tileId >= TILE_ID_A1
getAutotileKind(tileId) == (tileId - TILE_ID_A1) \div 48
getAutotileShape(tileId) == JsRem(tileId - TILE_ID_A1, 48)

\* A variant of makeAutotileId that packs the kinds 47 IDs apart.
makeAutotileId_Stride47(kind, shape) == TILE_ID_A1 + kind * 47 + shape

makeAutotileId(kind, shape) == TILE_ID_A1 + kind * 48 + shape

isTileA1(tileId) == tileId >= TILE_ID_A1 /\ tileId < TILE_ID_A2
isTileA2(tileId) == tileId >= TILE_ID_A2 /\ tileId < TILE_ID_A3
isTileA3(tileId) == tileId >= TILE_ID_A3 /\ tileId < TILE_ID_A4
isTileA4(tileId) == tileId >= TILE_ID_A4 /\ tileId < TILE_ID_MAX
isTileA5(tileId) == tileId >= TILE_ID_A5 /\ tileId < TILE_ID_A1
isShadowingTile(tileId) == isTileA3(tileId) \/ isTileA4(tileId)

\* Autotile shape number to coordinates of tileset images.
FLOOR_AUTOTILE_TABLE == <<
    <<<<2, 4>>, <<1, 4>>, <<2, 3>>, <<1, 3>>>>,
    <<<<2, 0>>, <<1, 4>>, <<2, 3>>, <<1, 3>>>>,
    <<<<2, 4>>, <<3, 0>>, <<2, 3>>, <<1, 3>>>>,
    <<<<2, 0>>, <<3, 0>>, <<2, 3>>, <<1, 3>>>>,
    <<<<2, 4>>, <<1, 4>>, <<2, 3>>, <<3, 1>>>>,
    <<<<2, 0>>, <<1, 4>>, <<2, 3>>, <<3, 1>>>>,
    <<<<2, 4>>, <<3, 0>>, <<2, 3>>, <<3, 1>>>>,
    <<<<2, 0>>, <<3, 0>>, <<2, 3>>, <<3, 1>>>>,
    <<<<2, 4>>, <<1, 4>>, <<2, 1>>, <<1, 3>>>>,
    <<<<2, 0>>, <<1, 4>>, <<2, 1>>, <<1, 3>>>>,
    <<<<2, 4>>, <<3, 0>>, <<2, 1>>, <<1, 3>>>>,
    <<<<2, 0>>, <<3, 0>>, <<2, 1>>, <<1, 3>>>>,
    <<<<2, 4>>, <<1, 4>>, <<2, 1>>, <<3, 1>>>>,
    <<<<2, 0>>, <<1, 4>>, <<2, 1>>, <<3, 1>>>>,
    <<<<2, 4>>, <<3, 0>>, <<2, 1>>, <<3, 1>>>>,
    <<<<2, 0>>, <<3, 0>>, <<2, 1>>, <<3, 1>>>>,
    <<<<0, 4>>, <<1, 4>>, <<0, 3>>, <<1, 3>>>>,
    <<<<0, 4>>, <<3, 0>>, <<0, 3>>, <<1, 3>>>>,
    <<<<0, 4>>, <<1, 4>>, <<0, 3>>, <<3, 1>>>>,
    <<<<0, 4>>, <<3, 0>>, <<0, 3>>, <<3, 1>>>>,
    <<<<2, 2>>, <<1, 2>>, <<2, 3>>, <<1, 3>>>>,
    <<<<2, 2>>, <<1, 2>>, <<2, 3>>, <<3, 1>>>>,
    <<<<2, 2>>, <<1, 2>>, <<2, 1>>, <<1, 3>>>>,
    <<<<2, 2>>, <<1, 2>>, <<2, 1>>, <<3, 1>>>>,
    <<<<2, 4>>, <<3, 4>>, <<2, 3>>, <<3, 3>>>>,
    <<<<2, 4>>, <<3, 4>>, <<2, 1>>, <<3, 3>>>>,
    <<<<2, 0>>, <<3, 4>>, <<2, 3>>, <<3, 3>>>>,
    <<<<2, 0>>, <<3, 4>>, <<2, 1>>, <<3, 3>>>>,
    <<<<2, 4>>, <<1, 4>>, <<2, 5>>, <<1, 5>>>>,
    <<<<2, 0>>, <<1, 4>>, <<2, 5>>, <<1, 5>>>>,
    <<<<2, 4>>, <<3, 0>>, <<2, 5>>, <<1, 5>>>>,
    <<<<2, 0>>, <<3, 0>>, <<2, 5>>, <<1, 5>>>>,
    <<<<0, 4>>, <<3, 4>>, <<0, 3>>, <<3, 3>>>>,
    <<<<2, 2>>, <<1, 2>>, <<2, 5>>, <<1, 5>>>>,
    <<<<0, 2>>, <<1, 2>>, <<0, 3>>, <<1, 3>>>>,
    <<<<0, 2>>, <<1, 2>>, <<0, 3>>, <<3, 1>>>>,
    <<<<2, 2>>, <<3, 2>>, <<2, 3>>, <<3, 3>>>>,
    <<<<2, 2>>, <<3, 2>>, <<2, 1>>, <<3, 3>>>>,
    <<<<2, 4>>, <<3, 4>>, <<2, 5>>, <<3, 5>>>>,
    <<<<2, 0>>, <<3, 4>>, <<2, 5>>, <<3, 5>>>>,
    <<<<0, 4>>, <<1, 4>>, <<0, 5>>, <<1, 5>>>>,
    <<<<0, 4>>, <<3, 0>>, <<0, 5>>, <<1, 5>>>>,
    <<<<0, 2>>, <<3, 2>>, <<0, 3>>, <<3, 3>>>>,
    <<<<0, 2>>, <<1, 2>>, <<0, 5>>, <<1, 5>>>>,
    <<<<0, 4>>, <<3, 4>>, <<0, 5>>, <<3, 5>>>>,
    <<<<2, 2>>, <<3, 2>>, <<2, 5>>, <<3, 5>>>>,
    <<<<0, 2>>, <<3, 2>>, <<0, 5>>, <<3, 5>>>>,
    <<<<0, 0>>, <<1, 0>>, <<0, 1>>, <<1, 1>>>>
>>

WALL_AUTOTILE_TABLE == <<
    <<<<2, 2>>, <<1, 2>>, <<2, 1>>, <<1, 1>>>>,
    <<<<0, 2>>, <<1, 2>>, <<0, 1>>, <<1, 1>>>>,
    <<<<2, 0>>, <<1, 0>>, <<2, 1>>, <<1, 1>>>>,
    <<<<0, 0>>, <<1, 0>>, <<0, 1>>, <<1, 1>>>>,
    <<<<2, 2>>, <<3, 2>>, <<2, 1>>, <<3, 1>>>>,
    <<<<0, 2>>, <<3, 2>>, <<0, 1>>, <<3, 1>>>>,
    <<<<2, 0>>, <<3, 0>>, <<2, 1>>, <<3, 1>>>>,
    <<<<0, 0>>, <<3, 0>>, <<0, 1>>, <<3, 1>>>>,
    <<<<2, 2>>, <<1, 2>>, <<2, 3>>, <<1, 3>>>>,
    <<<<0, 2>>, <<1, 2>>, <<0, 3>>, <<1, 3>>>>,
    <<<<2, 0>>, <<1, 0>>, <<2, 3>>, <<1, 3>>>>,
    <<<<0, 0>>, <<1, 0>>, <<0, 3>>, <<1, 3>>>>,
    <<<<2, 2>>, <<3, 2>>, <<2, 3>>, <<3, 3>>>>,
    <<<<0, 2>>, <<3, 2>>, <<0, 3>>, <<3, 3>>>>,
    <<<<2, 0>>, <<3, 0>>, <<2, 3>>, <<3, 3>>>>,
    <<<<0, 0>>, <<3, 0>>, <<0, 3>>, <<3, 3>>>>
>>

WATERFALL_AUTOTILE_TABLE == <<
    <<<<2, 0>>, <<1, 0>>, <<2, 1>>, <<1, 1>>>>,
    <<<<0, 0>>, <<1, 0>>, <<0, 1>>, <<1, 1>>>>,
    <<<<2, 0>>, <<3, 0>>, <<2, 1>>, <<3, 1>>>>,
    <<<<0, 0>>, <<3, 0>>, <<0, 1>>, <<3, 1>>>>
>>


\* flags[tileId] & mask, for a single-bit mask; a missing entry reads as 0.
FlagSet(flagArray, tileId, mask) ==
    /\ tileId \in DOMAIN flagArray
    /\ (flagArray[tileId] \div mask) % 2 = 1

\* A variant of isHigherTile that takes every tile for a higher one.
isHigherTile_Always(flagArray, tileId) == TRUE

isHigherTile(flagArray, tileId) == FlagSet(flagArray, tileId, 16)
isTableTile(flagArray, tileId) == isTileA2(tileId) /\ FlagSet(flagArray, tileId, 128)

\* A variant of normalSetNumber without the case of the band A5.
normalSetNumber_NoA5(tileId) == 5 + (tileId \div 256)

\* The texture slot _drawNormalTile picks.
normalSetNumber(tileId) == IF isTileA5(tileId) THEN 4 ELSE 5 + (tileId \div 256)

\* The texture slot _drawAutotile picks.
autotileSetNumber(tileId) ==
    IF isTileA1(tileId) THEN 0
    ELSE IF isTileA2(tileId) THEN 1
    ELSE IF isTileA3(tileId) THEN 2
    ELSE IF isTileA4(tileId) THEN 3
    ELSE 0

\* One layer.tile(n, x, y, options) call with a slot number.
TileCall(n, x, y, options) == [n |-> n, x |-> x, y |-> y, options |-> options]

\* The tile calls lo..hi of the list made on the layer, in order.
RECURSIVE tileAll(_, _, _, _)
tileAll(lay, calls, lo, hi) ==
    IF lo > hi THEN lay
    ELSE IF lo = hi
    THEN CompositeTile(lay, NumRef(calls[lo].n), calls[lo].x, calls[lo].y, calls[lo].options)
    ELSE Then(tileAll(lay, calls, lo, (lo + hi) \div 2),
              LAMBDA l : tileAll(l, calls, (lo + hi) \div 2 + 1, hi))

\* ShaderTilemap._drawNormalTile: the tile call it makes.
drawNormalTile(tileId, dx, dy) ==
    LET w  == tileWidth
        h  == tileHeight
        sx == (((tileId \div 128) % 2) * 8 + (tileId % 8)) * w
        sy == (((tileId % 256) \div 8) % 16) * h
    IN  <<TileCall(normalSetNumber(tileId), dx, dy,
                   [u |-> sx, v |-> sy, tileWidth |-> w, tileHeight |-> h])>>

\* What _drawAutotile derives from the tile ID before it reads the table:
\* the sheet position (bx, by), the table and the animation strides.
autotileParams(flagArray, tileId) ==
    LET kind == getAutotileKind(tileId)
        tx == kind % 8
        ty == kind \div 8
        none == [bx |-> 0, by |-> 0, isTable |-> FALSE, animX |-> 0, animY |-> 0,
                 autotileTable |-> FLOOR_AUTOTILE_TABLE]
    IN  IF isTileA1(tileId)
        THEN IF kind = 0 THEN [none EXCEPT !.animX = 2, !.by = 0]
             ELSE IF kind = 1 THEN [none EXCEPT !.animX = 2, !.by = 3]
             ELSE IF kind = 2 THEN [none EXCEPT !.bx = 6, !.by = 0]
             ELSE IF kind = 3 THEN [none EXCEPT !.bx = 6, !.by = 3]
             ELSE LET bx == (tx \div 4) * 8
                      by == ty * 6 + ((tx \div 2) % 2) * 3
                  IN  IF kind % 2 = 0
                      THEN [none EXCEPT !.bx = bx, !.by = by, !.animX = 2]
                      ELSE [none EXCEPT !.bx = bx + 6, !.by = by, !.animY = 1,
                                        !.autotileTable = WATERFALL_AUTOTILE_TABLE]
        ELSE IF isTileA2(tileId)
        THEN [none EXCEPT !.bx = tx * 2, !.by = (ty - 2) * 3,
                          !.isTable = isTableTile(flagArray, tileId)]
        ELSE IF isTileA3(tileId)
        THEN [none EXCEPT !.bx = tx * 2, !.by = (ty - 6) * 2,
                          !.autotileTable = WALL_AUTOTILE_TABLE]
        ELSE IF isTileA4(tileId)
        THEN [none EXCEPT !.bx = tx * 2,
                          !.by = (5 * (ty - 10) + (IF ty % 2 = 1 THEN 1 ELSE 0)) \div 2,
                          !.autotileTable = IF ty % 2 = 1 THEN WALL_AUTOTILE_TABLE
                                            ELSE FLOOR_AUTOTILE_TABLE]
        ELSE none

\* One turn (quadrant i) of the loop of _drawAutotile: the tile calls it makes.
drawAutotileQuadrant(setNumber, a, table, i, dx, dy) ==
    LET w1  == tileWidth \div 2
        h1  == tileHeight \div 2
        qsx == table[i + 1][1]
        qsy == table[i + 1][2]
        sx1 == (a.bx * 2 + qsx) * w1
        sy1 == (a.by * 2 + qsy) * h1
        dx1 == dx + (i % 2) * w1
        dy1 == dy + (i \div 2) * h1
    IN  IF a.isTable /\ (qsy = 1 \/ qsy = 5)
        THEN LET qsx2 == IF qsy = 1 THEN (4 - qsx) % 4 ELSE qsx
                 qsy2 == 3
                 sx2 == (a.bx * 2 + qsx2) * w1
                 sy2 == (a.by * 2 + qsy2) * h1
             IN  <<TileCall(setNumber, dx1, dy1,
                       [u |-> sx2, v |-> sy2, tileWidth |-> w1, tileHeight |-> h1,
                        animX |-> a.animX, animY |-> a.animY]),
                   TileCall(setNumber, dx1, dy1 + (h1 \div 2),
                       [u |-> sx1, v |-> sy1, tileWidth |-> w1, tileHeight |-> h1 \div 2,
                        animX |-> a.animX, animY |-> a.animY])>>
        ELSE <<TileCall(setNumber, dx1, dy1,
                   [u |-> sx1, v |-> sy1, tileWidth |-> w1, tileHeight |-> h1,
                    animX |-> a.animX, animY |-> a.animY])>>

\* ShaderTilemap._drawAutotile.  Reading a quadrant of a table entry that
\* does not exist throws (a TypeError) before anything is drawn.
\* Result: the tile calls made and whether the call threw.
drawAutotile(flagArray, tileId, dx, dy) ==
    Then(autotileParams(flagArray, tileId), LAMBDA a :
        LET shape == getAutotileShape(tileId)
            setNumber == autotileSetNumber(tileId)
        IN  IF shape + 1 \notin DOMAIN a.autotileTable
            THEN [calls |-> <<>>, err |-> TRUE]
            ELSE Then(a.autotileTable[shape + 1], LAMBDA table :
                     LET quadrant(i) == drawAutotileQuadrant(setNumber, a, table, i, dx, dy)
                     IN  [calls |-> quadrant(0) \o quadrant(1) \o quadrant(2) \o quadrant(3),
                          err |-> FALSE]))

\* ShaderTilemap._drawTile.  Result: the tile calls made and whether the
\* call threw.
drawTile(flagArray, tileId, dx, dy) ==
    IF isVisibleTile(tileId)
    THEN IF isAutotile(tileId)
         THEN drawAutotile(flagArray, tileId, dx, dy)
         ELSE [calls |-> drawNormalTile(tileId, dx, dy), err |-> FALSE]
    ELSE [calls |-> <<>>, err |-> FALSE]

\* A point whose coordinates are numbers (nan FALSE) or NaN (nan TRUE, and
\* x and y are then of no account).
Point(x, y) == [x |-> x, y |-> y, nan |-> FALSE]
NaNPoint == [x |-> 0, y |-> 0, nan |-> TRUE]

(***************************************************************************)
(* The viewport repaint controller: class ShaderTilemap (and the map       *)
(* reading of its base class Tilemap).  The nine composite layers are      *)
(* handled together as a record [lower, upper, shadow, err]; err is set    *)
(* once a draw call has thrown, and what follows a throw is not executed.  *)
(***************************************************************************)
\* Tilemap._margin
margin == 20

\* A variant of numberMod that is the remainder of JavaScript.
numberMod_Remainder(v, n) == JsRem(v, n)

\* numberMod: a modulo value which is always positive.
numberMod(v, n) == JsRem(JsRem(v, n) + n, n)

\* A variant of readMapData that looks up the data array without testing
\* the coordinates against the width and the height.
readMapData_NoRangeCheck(map, hWrap, vWrap, nan, x, y, z) ==
    IF ~map.defined THEN 0
    ELSE IF nan THEN 0
    ELSE IF (hWrap /\ map.width = 0) \/ (vWrap /\ map.height = 0) THEN 0
    ELSE LET x1 == IF hWrap THEN numberMod(x, map.width) ELSE x
             y1 == IF vWrap THEN numberMod(y, map.height) ELSE y
             at == (z * map.height + y1) * map.width + x1
         IN  IF at + 1 \in DOMAIN map.data THEN map.data[at + 1] ELSE 0

\* Tilemap._readMapData.  A wrap over a map of width (height) 0 yields NaN,
\* which is in no range, and so are coordinates that are NaN (nan).
readMapData(map, hWrap, vWrap, nan, x, y, z) ==
    IF ~map.defined THEN 0
    ELSE IF nan THEN 0
    ELSE IF (hWrap /\ map.width = 0) \/ (vWrap /\ map.height = 0) THEN 0
    ELSE LET x1 == IF hWrap THEN numberMod(x, map.width) ELSE x
             y1 == IF vWrap THEN numberMod(y, map.height) ELSE y
             at == (z * map.height + y1) * map.width + x1
         IN  IF x1 >= 0 /\ x1 < map.width /\ y1 >= 0 /\ y1 < map.height
             THEN IF at + 1 \in DOMAIN map.data THEN map.data[at + 1] ELSE 0
             ELSE 0

\* A variant of _isOverpassPosition that no subclass can change.
isOverpassPosition_Never(override, mx, my) == FALSE

\* Tilemap._isOverpassPosition: false in the class as written; a subclass
\* that overrides the method makes it return what it likes (override).
isOverpassPosition(override, mx, my) == override

\* ShaderTilemap._drawTableEdge: the tile calls it makes.
drawTableEdge(tileId, dx, dy) ==
    IF isTileA2(tileId)
    THEN LET kind == getAutotileKind(tileId)
             shape == getAutotileShape(tileId)
             tx == kind % 8
             ty == kind \div 8
             setNumber == 1
             bx == tx * 2
             by == (ty - 2) * 3
             table == FLOOR_AUTOTILE_TABLE[shape + 1]
             w1 == tileWidth \div 2
             h1 == tileHeight \div 2
             edge(i) ==
                 TileCall(setNumber, dx + (i % 2) * w1, dy + (i \div 2) * h1,
                     [u |-> (bx * 2 + table[2 + i + 1][1]) * w1,
                      v |-> (by * 2 + table[2 + i + 1][2]) * h1 + (h1 \div 2),
                      tileWidth |-> w1, tileHeight |-> h1 \div 2])
         IN  <<edge(0), edge(1)>>
    ELSE <<>>

\* Bit i of a non-negative number.
BitSet(n, i) == (n \div (2 ^ i)) % 2 = 1

\* A variant of drawShadow that lays the quadrants out column by column.
drawShadow_ColumnMajor(shadowBits, dx, dy) ==
    IF shadowBits % 16 # 0
    THEN LET w1 == tileWidth \div 2
             h1 == tileHeight \div 2
             bit(i) ==
                 IF BitSet(shadowBits, i)
                 THEN <<TileCall(-1, dx + (i \div 2) * w1, dy + (i % 2) * h1,
                                 [tileWidth |-> w1, tileHeight |-> h1])>>
                 ELSE <<>>
         IN  bit(0) \o bit(1) \o bit(2) \o bit(3)
    ELSE <<>>

\* ShaderTilemap._drawShadow: the tile calls it makes.
drawShadow(shadowBits, dx, dy) ==
    IF shadowBits % 16 # 0
    THEN LET w1 == tileWidth \div 2
             h1 == tileHeight \div 2
             bit(i) ==
                 IF BitSet(shadowBits, i)
                 THEN <<TileCall(-1, dx + (i % 2) * w1, dy + (i \div 2) * h1,
                                 [tileWidth |-> w1, tileHeight |-> h1])>>
                 ELSE <<>>
         IN  bit(0) \o bit(1) \o bit(2) \o bit(3)
    ELSE <<>>

\* Tile calls addressed to one of the nine layers: "lower" or "upper" layer
\* k (0..3), or the "shadow" layer.
OnLayer(group, k, calls) == [i \in 1..Len(calls) |-> [group |-> group, k |-> k, call |-> calls[i]]]

\* What a step of _paintTiles adds to what the steps before it did; nothing
\* runs after a throw.
AndThen(done, step) ==
    IF done.err THEN done
    ELSE [calls |-> done.calls \o step.calls, err |-> step.err]

\* The six steps of ShaderTilemap._paintTiles for one cell, in the order of
\* the code: the tiles of the planes 0 and 1, the shadow, the table edge,
\* the tiles of the planes 2 and 3.  Each step is the tile calls it makes on
\* the layers and whether it threw.
cellSteps(cfg, start, x, y) ==
    LET mx == start.x + x
        my == start.y + y
        dx == x * tileWidth
        dy == y * tileHeight
        read(px, py, z) == readMapData(cfg.map, cfg.horizontalWrap, cfg.verticalWrap,
                                       start.nan, px, py, z)
    IN  Then(<<read(mx, my, 0), read(mx, my, 1), read(mx, my, 2), read(mx, my, 3),
               read(mx, my, 4), read(mx, my - 1, 1)>>, LAMBDA ids :
    LET tileId0 == ids[1]
        tileId1 == ids[2]
        tileId2 == ids[3]
        tileId3 == ids[4]
        shadowBits == ids[5]
        upperTileId1 == ids[6]
        fl == cfg.flags
        over == isOverpassPosition(cfg.overpass, mx, my)
        group(higher) == IF higher THEN "upper" ELSE "lower"
        tile(z, higher) ==
            Then(drawTile(fl, ids[z + 1], dx, dy), LAMBDA d :
                [calls |-> OnLayer(group(higher), z, d.calls), err |-> d.err])
        shadow == [calls |-> OnLayer("shadow", 0, drawShadow(shadowBits, dx, dy)),
                   err |-> FALSE]
        edge == [calls |-> IF /\ isTableTile(fl, upperTileId1)
                              /\ ~isTableTile(fl, tileId1)
                              /\ ~isShadowingTile(tileId0)
                           THEN OnLayer("lower", 2, drawTableEdge(upperTileId1, dx, dy))
                           ELSE <<>>,
                 err |-> FALSE]
        higherAt(z) == (z >= 2 /\ over) \/ isHigherTile(fl, ids[z + 1])
    IN  <<tile(0, higherAt(0)), tile(1, higherAt(1)), shadow, edge,
          tile(2, higherAt(2)), tile(3, higherAt(3))>>)

\* A variant of _paintTiles that draws the tile of plane 2 before the table
\* edge.
paintTiles_Plane2BeforeEdge(cfg, start, x, y) ==
    Then(cellSteps(cfg, start, x, y), LAMBDA step :
        AndThen(AndThen(AndThen(AndThen(AndThen(step[1], step[2]), step[3]), step[5]),
                        step[4]), step[6]))

\* ShaderTilemap._paintTiles: the tile calls made on the layers for one cell
\* and whether a draw threw.
paintTiles(cfg, start, x, y) ==
    Then(cellSteps(cfg, start, x, y), LAMBDA step :
        AndThen(AndThen(AndThen(AndThen(AndThen(step[1], step[2]), step[3]), step[4]),
                        step[5]), step[6]))

\* The tile calls of the cells lo..hi (counted row-major from 0) of a
\* cols-wide window, painted in that order.
RECURSIVE paintCells(_, _, _, _, _)
paintCells(cfg, start, cols, lo, hi) ==
    IF lo > hi THEN [calls |-> <<>>, err |-> FALSE]
    ELSE IF lo = hi THEN paintTiles(cfg, start, lo % cols, lo \div cols)
    ELSE Then(paintCells(cfg, start, cols, lo, (lo + hi) \div 2), LAMBDA done :
             IF done.err THEN done
             ELSE Then(paintCells(cfg, start, cols, (lo + hi) \div 2 + 1, hi),
                       LAMBDA rest : AndThen(done, rest)))

\* The addressed tile calls lo..hi of the list made on the layers, in order.
RECURSIVE tileLayers(_, _, _, _)
tileLayers(R, calls, lo, hi) ==
    IF lo > hi THEN R
    ELSE IF lo = hi
    THEN LET c == calls[lo]
             lay == IF c.group = "shadow" THEN R.shadow
                    ELSE IF c.group = "upper" THEN R.upper[c.k + 1]
                    ELSE R.lower[c.k + 1]
         IN  Then(tileAll(lay, <<c.call>>, 1, 1), LAMBDA l :
                 IF c.group = "shadow" THEN [R EXCEPT !.shadow = l]
                 ELSE IF c.group = "upper" THEN [R EXCEPT !.upper[c.k + 1] = l]
                 ELSE [R EXCEPT !.lower[c.k + 1] = l])
    ELSE Then(tileLayers(R, calls, lo, (lo + hi) \div 2),
              LAMBDA done : tileLayers(done, calls, (lo + hi) \div 2 + 1, hi))

\* Math.ceil(a / b) for b > 0.
CeilDiv(a, b) == -((-a) \div b)

\* A clearing that leaves the shadow layer as it is.
clearLayers_KeepShadow(R) ==
    [lower |-> [k \in 1..4 |-> CompositeClear(R.lower[k])],
     upper |-> [k \in 1..4 |-> CompositeClear(R.upper[k])],
     shadow |-> R.shadow,
     err |-> R.err]

\* The clearing _paintAllTiles starts with: every layer cleared.
clearLayers(R) ==
    [lower |-> [k \in 1..4 |-> CompositeClear(R.lower[k])],
     upper |-> [k \in 1..4 |-> CompositeClear(R.upper[k])],
     shadow |-> CompositeClear(R.shadow),
     err |-> R.err]

\* ShaderTilemap._paintAllTiles
paintAllTiles(R, cfg, start) ==
    LET tileCols == IF cfg.paintAll THEN Max(cfg.map.width, 0)
                    ELSE CeilDiv(cfg.width, tileWidth) + 1
        tileRows == IF cfg.paintAll THEN Max(cfg.map.height, 0)
                    ELSE CeilDiv(cfg.height, tileHeight) + 1
        from == IF cfg.paintAll THEN [x |-> 0, y |-> 0, nan |-> FALSE] ELSE start
    IN  Then(paintCells(cfg, from, tileCols, 0, tileCols * tileRows - 1), LAMBDA p :
            Then(clearLayers(R), LAMBDA cleared :
                [tileLayers(cleared, p.calls, 1, Len(p.calls)) EXCEPT !.err = p.err]))

\* The start a viewport repaint computes from the origin:
\* Math.floor((o - margin) / tile size), NaN for a NaN origin.
startOf(o) ==
    IF o.nan THEN [defined |-> TRUE, x |-> 0, y |-> 0, nan |-> TRUE]
    ELSE [defined |-> TRUE,
          x |-> (o.x - margin) \div tileWidth,
          y |-> (o.y - margin) \div tileHeight,
          nan |-> FALSE]

\* Whether _repaint(force) paints: in paint-all mode when forced; in
\* viewport mode when forced or when _lastStartX !== startX or
\* _lastStartY !== startY, which is so for undefined and for NaN.
needsPaint(pAll, force, last, start) ==
    IF pAll THEN force ELSE force \/ start.nan \/ last # start

\* ShaderTilemap._repaint(force) with _updateLayerPositions.
\* Result: the layers, _lastStartX/Y, the layers' position and whether
\* _paintAllTiles ran.
repaintOf(R, cfg, o, last, force) ==
    LET start == IF cfg.paintAll THEN [defined |-> TRUE, x |-> 0, y |-> 0, nan |-> FALSE]
                 ELSE startOf(o)
        paint == needsPaint(cfg.paintAll, force, last, start)
    IN  [layers |-> IF paint THEN paintAllTiles(R, cfg, start) ELSE R,
         lastStart |-> IF paint /\ ~cfg.paintAll THEN start ELSE last,
         position |-> IF o.nan \/ start.nan THEN NaNPoint
                      ELSE Point(start.x * tileWidth - o.x, start.y * tileHeight - o.y),
         painted |-> paint]

\* The list _updateBitmaps hands to tileset(): the image resources of the
\* bitmaps that are present, the missing ones dropped.
RECURSIVE presentSources(_)
presentSources(bitmapList) ==
    IF bitmapList = <<>> THEN <<>>
    ELSE LET rest == presentSources(SubSeq(bitmapList, 1, Len(bitmapList) - 1))
             last == bitmapList[Len(bitmapList)]
         IN  IF last = "undefined" THEN rest ELSE Append(rest, SourceAsTexture(last))

\* tileset(list) on the first n of the 8 lower and upper layers, in order,
\* stopping at the first one that throws.
RECURSIVE tilesetLayers(_, _, _)
tilesetLayers(R, list, n) ==
    IF n = 0 THEN R
    ELSE Then(tilesetLayers(R, list, n - 1), LAMBDA done :
             IF done.err THEN done
             ELSE IF n <= 4
             THEN Then(CompositeTileset(done.lower[n], list, 0),
                       LAMBDA r : [done EXCEPT !.lower[n] = r.layer, !.err = r.err])
             ELSE Then(CompositeTileset(done.upper[n - 4], list, 0),
                       LAMBDA r : [done EXCEPT !.upper[n - 4] = r.layer, !.err = r.err]))

\* ShaderTilemap._updateBitmaps
updateBitmaps(R, bitmapList) == tilesetLayers(R, presentSources(bitmapList), 8)

\* ShaderTilemap.refresh.  _lastBitmapLength is set before _updateBitmaps
\* runs; when that throws, _repaint is not reached.
refreshOf(R, cfg, o, last, lastLen, pos) ==
    Then(IF lastLen # Len(cfg.bitmaps) THEN updateBitmaps(R, cfg.bitmaps) ELSE R,
         LAMBDA synced :
             IF synced.err
             THEN [layers |-> synced, lastStart |-> last, position |-> pos,
                   painted |-> FALSE, lastBitmapLength |-> Len(cfg.bitmaps)]
             ELSE Then(repaintOf(synced, cfg, o, last, TRUE), LAMBDA r :
                      [layers |-> r.layers, lastStart |-> r.lastStart,
                       position |-> r.position, painted |-> r.painted,
                       lastBitmapLength |-> Len(cfg.bitmaps)]))

(***************************************************************************)
(* The animation clock: class CounterInterpolator and the counter of the   *)
(* abstract class Tilemap.  Time is counted in whole units of              *)
(* 1 / DefaultFps seconds, so that the arithmetic of the counter is exact. *)
(***************************************************************************)
DefaultFps == 60

\* The arguments of `new CounterInterpolator(12, 0, 30 / DefaultFps)`: the
\* bound, and the interval 30 / DefaultFps seconds in units of
\* 1 / DefaultFps seconds.
AnimationBound == 12
AnimationInterval == 30

\* new CounterInterpolator(bound, start, inteval)
CounterInterpolator(bound, start, inteval) ==
    [bound |-> bound, start |-> start, inteval |-> inteval,
     current |-> start, cumulated |-> 0]

\* A counter built with the default interval of the class, 1 / DefaultFps.
NewAnimationCount_DefaultInterval == CounterInterpolator(AnimationBound, 0, 1)

\* Tilemap.animationCount
NewAnimationCount == CounterInterpolator(AnimationBound, 0, AnimationInterval)

\* A variant of updateDelta that drops the leftover time when it steps.
counterUpdateDelta_DropLeftover(c, delta) ==
    LET cumulated == c.cumulated + delta
    IN  IF cumulated >= c.inteval
        THEN [c EXCEPT !.current = JsRem(c.current + cumulated \div c.inteval, c.bound),
                       !.cumulated = 0]
        ELSE [c EXCEPT !.cumulated = cumulated]

\* CounterInterpolator.updateDelta(delta): the counter after the call.
counterUpdateDelta(c, delta) ==
    LET cumulated == c.cumulated + delta
    IN  IF cumulated >= c.inteval
        THEN LET cnt == cumulated \div c.inteval
             IN  [c EXCEPT !.current = JsRem(c.current + cnt, c.bound),
                           !.cumulated = cumulated - cnt * c.inteval]
        ELSE [c EXCEPT !.cumulated = cumulated]

\* A variant of tileAnimOf without the remapping of 3 to 1.
tileAnimOf_NoRemap(frame) ==
    [x |-> JsRem(frame, 4) * tileWidth, y |-> JsRem(frame, 3) * tileHeight]

\* The arguments Tilemap.updateDelta passes to updateTileAnim for a frame.
tileAnimOf(frame) ==
    LET af == IF JsRem(frame, 4) = 3 THEN 1 ELSE JsRem(frame, 4)
    IN  [x |-> af * tileWidth, y |-> JsRem(frame, 3) * tileHeight]

(***************************************************************************)
(* SpecLayer: one CompositeTilemap, created empty, driven by its public    *)
(* methods with small inputs.                                              *)
(***************************************************************************)
\* Bounds of SpecLayer.
MaxChildren == 2
MaxCmds == 2

\* Two textures on image A (different frames), one on image B.
TexA  == [source |-> "A", fx |-> 0,  fy |-> 0, ow |-> 48, oh |-> 48, sw |-> 96, sh |-> 96]
TexA2 == [source |-> "A", fx |-> 48, fy |-> 0, ow |-> 48, oh |-> 48, sw |-> 96, sh |-> 96]
TexB  == [source |-> "B", fx |-> 0,  fy |-> 0, ow |-> 48, oh |-> 48, sw |-> 96, sh |-> 96]

LayerTextures == {TexA2, TexB}

\* The lists tileset() is called with (an entry may be missing).
TextureLists ==
    {<<>>, <<TexA>>, <<TexA, TexA>>, <<TexA, TexB>>, <<TexB, TexA>>, <<NoTexture, TexB>>}

\* The tiles tile() is called with: a position and an options object.
LayerTiles == {[x |-> 0, y |-> 0, options |-> [tileWidth |-> 24, tileHeight |-> 24]],
               [x |-> 24, y |-> 48,
                options |-> [u |-> 24, v |-> 48, tileWidth |-> 48, tileHeight |-> 48,
                             animX |-> 2]]}
LayerSlots == {-2, 0, 1, 2, 3}

\* The first argument of tile(): the shadow sentinel, an integer slot, a
\* texture, or the name of an image.
ShadowRefs == {NumRef(-1)}
SlotRefs == {NumRef(n) : n \in LayerSlots}
TextureRefs == {TexRef(tex) : tex \in LayerTextures}
StringRefs == {StrRef("B")}

RECURSIVE SumCmds(_, _)
SumCmds(children, n) ==
    IF n = 0 THEN 0 ELSE SumCmds(children, n - 1) + Len(children[n].pointsBuf)

\* The number of commands held by all buffers of a layer.
CmdCount(lay) == SumCmds(lay.children, Len(lay.children))

NoCall == [op |-> "new", list |-> <<>>, ref |-> NumRef(0), err |-> FALSE]

\* _mapData before setData.
NoMap == [defined |-> FALSE, width |-> 0, height |-> 0, data |-> <<>>]

\* _lastStartX and _lastStartY before the first viewport repaint.
NoStart == [defined |-> FALSE, x |-> 0, y |-> 0, nan |-> FALSE]

NoRCall == [op |-> "new", force |-> FALSE, painted |-> FALSE, err |-> FALSE, prev |-> "other"]

\* The variables of Spec while another specification runs.
IdleRend ==
    /\ bitmaps = <<>>
    /\ flags = "plain"
    /\ mapData = NoMap
    /\ origin = Point(0, 0)
    /\ scrollOrigin = Point(0, 0)
    /\ horizontalWrap = FALSE
    /\ verticalWrap = FALSE
    /\ paintAll = FALSE
    /\ width = 0
    /\ height = 0
    /\ lastBitmapLength = -1
    /\ lastStart = NoStart
    /\ lowerLayer = [k \in 1..4 |-> NewComposite]
    /\ upperLayer = [k \in 1..4 |-> NewComposite]
    /\ shadowLayer = NewComposite
    /\ position = Point(0, 0)
    /\ rcall = NoRCall
    /\ changes = 0

\* The variables of the later specifications while another one runs: the
\* renderer is the class as written.
\* No pipe has met the buffer yet.
NoPipeRecord == [data |-> FALSE, geometry |-> NoGeometry, mesh |-> FALSE,
                 attached |-> NoGeometry]
NoPipes == <<NoPipeRecord, NoPipeRecord>>
NoSubmission == [pipe |-> 0, geometry |-> NoGeometry]

\* The html '' of a webview: built from no map.
NoHtml == [tileset |-> "", map |-> ""]

\* No containsPoint() call was made yet.
NoHit == [point |-> [x |-> 0, y |-> 0], ret |-> FALSE]

\* The pipe has no batchable mesh for the buffer yet.
NoPipeData == [mesh |-> FALSE, texture |-> "none", ret |-> "none"]

IdleOther ==
    /\ overpass = FALSE
    /\ animationCount = NewAnimationCount
    /\ animationFrame = 0
    /\ layerAnim = [array |-> FALSE, x |-> 0, y |-> 0]
    /\ elapsed = 0
    /\ pipe = NoPipeData
    /\ compositeTileAnim = [x |-> 0, y |-> 0]
    /\ viewBounds = EmptyBounds
    /\ hit = NoHit
    /\ pipes = NoPipes
    /\ submitted = NoSubmission
    /\ activeMapName = ""
    /\ listening = "unresolved"
    /\ builds = <<>>
    /\ html = NoHtml
    /\ nameSets = 0

\* The variables of SpecGeom while another specification runs.
IdleGeom ==
    /\ tilemap = NewTilemap(NoTexture)
    /\ kept = NoGeometry
    /\ latest = NoGeometry
    /\ built = "none"
    /\ gcall = "new"

\* The variables of SpecDraw while another specification runs.
IdleDraw ==
    /\ dlayer = NewComposite
    /\ dflags = "plain"
    /\ dcall = [op |-> "new", tileId |-> 0, err |-> FALSE, added |-> 0]

InitLayer ==
    /\ IdleOther
    /\ IdleGeom
    /\ IdleDraw
    /\ IdleRend
    /\ layer = NewComposite
    /\ fresh = 0
    /\ lcall = NoCall
    /\ shadowUsed = FALSE

LTileset(list) ==
    LET r == CompositeTileset(layer, list, fresh)
    IN  /\ r.fresh <= Len(FreshNames)
        /\ Len(r.layer.children) <= MaxChildren
        /\ layer' = r.layer
        /\ fresh' = r.fresh
        /\ lcall' = [op |-> "tileset", list |-> list, ref |-> NumRef(0), err |-> r.err]
        /\ UNCHANGED <<shadowUsed, geomVars, drawVars, rendVars, otherVars>>

LTile(ref, t) ==
    LET r == CompositeTile(layer, ref, t.x, t.y, t.options)
    IN  /\ Len(r.children) <= MaxChildren
        /\ CmdCount(r) <= MaxCmds
        /\ layer' = r
        /\ lcall' = [op |-> "tile", list |-> <<>>, ref |-> ref, err |-> FALSE]
        /\ shadowUsed' = (shadowUsed \/ (ref.kind = "num" /\ ref.n = -1))
        /\ UNCHANGED <<fresh, geomVars, drawVars, rendVars, otherVars>>

LTileShadow == \E ref \in ShadowRefs, t \in LayerTiles : LTile(ref, t)

LTileSlot == \E ref \in SlotRefs, t \in LayerTiles : LTile(ref, t)

LTileTexture == \E ref \in TextureRefs, t \in LayerTiles : LTile(ref, t)

LTileString == \E ref \in StringRefs, t \in LayerTiles : LTile(ref, t)

LClear ==
    /\ layer' = CompositeClear(layer)
    /\ lcall' = [op |-> "clear", list |-> <<>>, ref |-> NumRef(0), err |-> FALSE]
    /\ UNCHANGED <<fresh, shadowUsed, geomVars, drawVars, rendVars, otherVars>>

NextLayer ==
    \/ \E list \in TextureLists : LTileset(list)
    \/ LTileShadow
    \/ LTileSlot
    \/ LTileTexture
    \/ LTileString
    \/ LClear

SpecLayer == InitLayer /\ [][NextLayer]_vars

(***************************************************************************)
(* SpecGeom: one batch buffer under tile() and clear(), and a caller that  *)
(* builds its geometry: without a geometry, or handing back a geometry an  *)
(* earlier build returned.  The caller holds the geometry of its first     *)
(* build (as TilemapPipe holds tilemapData.geometry) and the newest one    *)
(* made since.                                                             *)
(***************************************************************************)
\* Bound of SpecGeom: the commands a buffer holds.
MaxPoints == 2

GeomTiles == {[x |-> 0, y |-> 0,
               options |-> [u |-> 48, v |-> 24, tileWidth |-> 24, tileHeight |-> 24]],
              [x |-> 24, y |-> 12,
               options |-> [u |-> 24, v |-> 48, tileWidth |-> 24, tileHeight |-> 12,
                            animX |-> 2]]}

\* The variables of SpecLayer while another specification runs.
IdleLayer ==
    /\ layer = NewComposite
    /\ fresh = 0
    /\ lcall = NoCall
    /\ shadowUsed = FALSE

InitGeom ==
    /\ IdleOther
    /\ IdleLayer
    /\ IdleDraw
    /\ IdleRend
    /\ tilemap = NewTilemap(TexA)
    /\ kept = NoGeometry
    /\ latest = NoGeometry
    /\ built = "none"
    /\ gcall = "new"

GTile ==
    /\ Len(tilemap.pointsBuf) < MaxPoints
    /\ \E t \in GeomTiles : tilemap' = TilemapTile(tilemap, NoTexture, t.x, t.y, t.options)
    /\ gcall' = "tile"
    /\ UNCHANGED <<kept, latest, built, layerVars, drawVars, rendVars, otherVars>>

GClear ==
    /\ tilemap' = TilemapClear(tilemap)
    /\ gcall' = "clear"
    /\ UNCHANGED <<kept, latest, built, layerVars, drawVars, rendVars, otherVars>>

\* The first build: no geometry is handed in; the caller keeps the result.
GBuildFirst ==
    /\ kept.none
    /\ kept' = computeGeometriesBatched(tilemap, NoGeometry).geometry
    /\ built' = "kept"
    /\ gcall' = "build"
    /\ UNCHANGED <<tilemap, latest, layerVars, drawVars, rendVars, otherVars>>

\* A build that is handed the kept geometry, the latest one, or none.
GBuild(arg) ==
    /\ ~kept.none
    /\ arg = "latest" => ~latest.none
    /\ LET given == IF arg = "kept" THEN kept ELSE IF arg = "latest" THEN latest ELSE NoGeometry
           r == computeGeometriesBatched(tilemap, given)
       IN  IF r.isNew
           THEN latest' = r.geometry /\ built' = "latest" /\ UNCHANGED kept
           ELSE IF arg = "kept"
                THEN kept' = r.geometry /\ built' = "kept" /\ UNCHANGED latest
                ELSE latest' = r.geometry /\ built' = "latest" /\ UNCHANGED kept
    /\ gcall' = "build"
    /\ UNCHANGED <<tilemap, layerVars, drawVars, rendVars, otherVars>>

NextGeom ==
    \/ GTile
    \/ GClear
    \/ GBuildFirst
    \/ \E arg \in {"none", "kept", "latest"} : GBuild(arg)

SpecGeom == InitGeom /\ [][NextGeom]_vars

\* The geometry the last build returned.
BuiltGeometry == IF built = "kept" THEN kept ELSE latest

\* C4: after any tile()/clear() calls and any rebuilds (with no geometry or
\* with an earlier one handed back) the built mesh has 8n positions, 8n uvs
\* and 6n indices for the n commands held, every index is below 4n, and
\* quad i uses the indices (4i, 4i+1, 4i+2, 4i, 4i+2, 4i+3).
C4_GeometryShape ==
    gcall = "build" =>
        LET g == BuiltGeometry
            n == Len(tilemap.pointsBuf)
        IN  /\ Len(g.positions) = 8 * n
            /\ Len(g.uvs) = 8 * n
            /\ Len(g.indices) = 6 * n
            /\ \A k \in 1..Len(g.indices) : g.indices[k] < 4 * n
            /\ \A i \in 0..(n - 1) :
                 SubSeq(g.indices, 6 * i + 1, 6 * i + 6)
                   = <<4 * i, 4 * i + 1, 4 * i + 2, 4 * i, 4 * i + 2, 4 * i + 3>>

\* A build reused the kept allocation of two quads for a single command.
C4_Witness ==
    /\ gcall = "build"
    /\ built = "kept"
    /\ kept.cap = 16
    /\ Len(tilemap.pointsBuf) = 1
    /\ Len(kept.positions) = 8

(***************************************************************************)
(* SpecDraw: ShaderTilemap._drawTile applied to one cleared composite      *)
(* layer, for a range of tile IDs, flags arrays and pre-seeded buffers.    *)
(***************************************************************************)
\* The image resources of the nine tileset slots, in slot order.
SlotImages == <<"img0", "img1", "img2", "img3", "img4", "img5", "img6", "img7", "img8">>

\* The autotile kinds drawn, with every shape 0..47: A1 (still water, the
\* special kinds 2 and 3, waterfalls 5 and 15), A2, A3 and A4 (both row
\* parities).
DrawKinds == {0, 1, 2, 3, 4, 5, 15, 16, 47, 48, 56, 79, 80, 88, 127}

\* The tile IDs drawn.
DrawIds ==
    {-1000, -1, 0, 1, 7, 8, 9, 127, 128, 255, 256, 511, 512, 767, 768, 1023,
     1024, 1033, 1535, 1536, 1537, 2047, 8192, 8193, 10000}
    \cup {makeAutotileId(k, sh) : k \in DrawKinds, sh \in 0..47}

\* The flags arrays in use, by name: no flag set; every A2 tile a table.
FlagArrays ==
    [plain |-> [id \in {} |-> 0],
     table |-> [id \in {makeAutotileId(k, sh) : k \in 16..47, sh \in 0..47} \cup {1} |->
                  IF id = 1 THEN 16 ELSE 128]]

InitDraw ==
    /\ IdleOther
    /\ IdleLayer
    /\ IdleGeom
    /\ IdleRend
    /\ \E n \in {0, 1, 9} :
         dlayer = CompositeTileset(NewComposite,
                                   [i \in 1..n |-> SourceAsTexture(SlotImages[i])], 0).layer
    /\ dflags \in DOMAIN FlagArrays
    /\ dcall = [op |-> "new", tileId |-> 0, err |-> FALSE, added |-> 0]

\* _drawTile(layer, tileId, 0, 0) on the new or just cleared layer.
DDraw(tileId) ==
    /\ dcall.op # "draw"
    /\ \E d \in {drawTile(FlagArrays[dflags], tileId, 0, 0)} :
       \E drawn \in {tileAll(dlayer, d.calls, 1, Len(d.calls))} :
           /\ dlayer' = drawn
           /\ dcall' = [op |-> "draw", tileId |-> tileId, err |-> d.err,
                        added |-> CmdCount(drawn) - CmdCount(dlayer)]
    /\ UNCHANGED <<dflags, layerVars, geomVars, rendVars, otherVars>>

DClear ==
    /\ dlayer' = CompositeClear(dlayer)
    /\ dcall' = [op |-> "clear", tileId |-> 0, err |-> FALSE, added |-> 0]
    /\ UNCHANGED <<dflags, layerVars, geomVars, rendVars, otherVars>>

NextDraw ==
    \/ \E tileId \in DrawIds : DDraw(tileId)
    \/ DClear

SpecDraw == InitDraw /\ [][NextDraw]_vars

(***************************************************************************)
(* Properties of the decoder (SpecDraw).                                   *)
(***************************************************************************)
\* C1: drawing a tile completes without raising an error, for every tile ID
\* and every flags and tileset state.
C1_DecodingTotal == dcall.op = "draw" => ~dcall.err

\* The IDs of no documented band.
OutOfBand(tileId) ==
    \/ tileId <= 0
    \/ tileId >= 8192
    \/ (tileId >= 1024 /\ tileId < 1536)

\* C2: a tile ID in none of the documented bands never adds a draw command
\* to any buffer, whatever buffers exist.
C2_OutOfBandInvisible == (dcall.op = "draw" /\ OutOfBand(dcall.tileId)) => dcall.added = 0

BandNames == {"invisible", "B", "C", "D", "E", "A5", "A1", "A2", "A3", "A4"}

\* The documented range of each class.
InDocumentedRange(band, tileId) ==
    IF band = "invisible" THEN tileId <= 0 \/ tileId >= 8192
    ELSE IF band = "B" THEN tileId >= 0 /\ tileId < 256
    ELSE IF band = "C" THEN tileId >= 256 /\ tileId < 512
    ELSE IF band = "D" THEN tileId >= 512 /\ tileId < 768
    ELSE IF band = "E" THEN tileId >= 768 /\ tileId < 1024
    ELSE IF band = "A5" THEN tileId >= 1536 /\ tileId < 2048
    ELSE IF band = "A1" THEN tileId >= 2048 /\ tileId < 2816
    ELSE IF band = "A2" THEN tileId >= 2816 /\ tileId < 4352
    ELSE IF band = "A3" THEN tileId >= 4352 /\ tileId < 5888
    ELSE tileId >= 5888 /\ tileId < 8192

\* The class the code treats an ID as: skipped, or drawn through the slot
\* of a band (slots 0..8 are A1, A2, A3, A4, A5, B, C, D, E).
ClassifiedAs(band, tileId) ==
    IF ~isVisibleTile(tileId) THEN band = "invisible"
    ELSE IF isAutotile(tileId)
    THEN band = <<"A1", "A2", "A3", "A4">>[autotileSetNumber(tileId) + 1]
    ELSE /\ normalSetNumber(tileId) \in 4..8
         /\ band = <<"A5", "B", "C", "D", "E">>[normalSetNumber(tileId) - 3]

\* C3: for every ID exactly one of the ten classes holds for the way the
\* code classifies and draws it, and it is the class of the documented range.
C3_BandClassification ==
    dcall.op = "draw" =>
        /\ Cardinality({b \in BandNames : ClassifiedAs(b, dcall.tileId)}) = 1
        /\ \A b \in BandNames : ClassifiedAs(b, dcall.tileId) => InDocumentedRange(b, dcall.tileId)

(***************************************************************************)
(* Properties of the composite layer (SpecLayer).                          *)
(***************************************************************************)
\* The (1-based) places of the buffers bound to the shadow image.
ShadowBuffers(lay) ==
    {i \in 1..Len(lay.children) : lay.children[i].baseTexture.source = "SHADOW"}

\* Buffer `at` of `new` is buffer `at` of `old` with exactly one command
\* appended; every other buffer is the same.
AppendedOneAt(old, new, at) ==
    /\ Len(new.children) = Len(old.children)
    /\ \A i \in 1..Len(old.children) : i # at => new.children[i] = old.children[i]
    /\ new.children[at].baseTexture = old.children[at].baseTexture
    /\ Len(new.children[at].pointsBuf) = Len(old.children[at].pointsBuf) + 1
    /\ SubSeq(new.children[at].pointsBuf, 1, Len(old.children[at].pointsBuf))
         = old.children[at].pointsBuf

\* C7: a composite layer never holds two buffers backed by the same image
\* resource, after any sequence of tileset(), tile() and clear() calls.
C7_DistinctResources ==
    \A i, j \in 1..Len(layer.children) :
        i # j => layer.children[i].baseTexture.source # layer.children[j].baseTexture.source

LastWasShadowTile == lcall.op = "tile" /\ lcall.ref.kind = "num" /\ lcall.ref.n = -1

\* What a step of the layer must satisfy for C8.
ShadowRoutingStep ==
    /\ (LastWasShadowTile' /\ layer.shadowId = -1) =>
          /\ ShadowBuffers(layer) = {}
          /\ layer'.shadowId = Len(layer.children)
          /\ Len(layer'.children) = Len(layer.children) + 1
          /\ SubSeq(layer'.children, 1, Len(layer.children)) = layer.children
          /\ layer'.children[Len(layer'.children)].baseTexture = shadowTexture
          /\ Len(layer'.children[Len(layer'.children)].pointsBuf) = 1
    /\ (LastWasShadowTile' /\ layer.shadowId # -1) =>
          /\ layer'.shadowId = layer.shadowId
          /\ AppendedOneAt(layer, layer', layer.shadowId + 1)
          /\ layer'.children[layer.shadowId + 1].baseTexture = shadowTexture
    /\ (layer.shadowId # -1 => layer'.shadowId = layer.shadowId)
    /\ Cardinality(ShadowBuffers(layer')) <= 1
    /\ (shadowUsed' <=> layer'.shadowId # -1)
    /\ (shadowUsed' <=> ShadowBuffers(layer') # {})

LastWasSlotTile == lcall.op = "tile" /\ lcall.ref.kind = "num" /\ lcall.ref.n # -1

\* What a step of the layer must satisfy for C9.
SlotRoutingStep ==
    LastWasSlotTile' =>
        /\ ~lcall'.err
        /\ layer'.shadowId = layer.shadowId
        /\ fresh' = fresh
        /\ IF lcall'.ref.n >= 0 /\ lcall'.ref.n < Len(layer.children)
           THEN AppendedOneAt(layer, layer', lcall'.ref.n + 1)
           ELSE IF Len(layer.children) > 0
                THEN AppendedOneAt(layer, layer', 1)
                ELSE layer' = layer

\* C9: tile(n, ...) with an integer n other than -1 appends exactly one
\* command to buffer n if that buffer exists, otherwise to buffer 0 if any
\* buffer exists, otherwise it changes nothing and raises no error.
C9_SlotRouting == [][SlotRoutingStep]_vars

\* tile(3, ...) on a layer with buffers 0 and 1 only: the command is in buffer 0.
C9_Witness ==
    /\ LastWasSlotTile
    /\ lcall.ref.n = 3
    /\ Len(layer.children) = 2
    /\ Len(layer.children[1].pointsBuf) = 1
    /\ Len(layer.children[2].pointsBuf) = 0

\* What a step of the layer must satisfy for C10.
TilesetErrorStep ==
    (/\ lcall'.op = "tileset"
     /\ \E i \in 1..Len(layer.children) :
            /\ i <= Len(lcall'.list)
            /\ layer.children[i].baseTexture.source # lcall'.list[i].source)
    => (lcall'.err /\ layer' = layer /\ fresh' = fresh)

MaxChanges == 2

\* Map data of a width x height map, five planes, plane-major.
MapOf(w, h, planes) == [defined |-> TRUE, width |-> w, height |-> h, data |-> planes]

\* A 1x1 map: an A2 floor, a B tile in plane 3, shadow bits 0 and 2.
FloorMap == MapOf(1, 1, <<2816, 0, 0, 1, 5>>)
\* A 1x2 map: A5 ground, and an A2 tile in plane 1 of the upper cell.
TableMap == MapOf(1, 2, <<1536, 1536, 2867, 0, 0, 0, 0, 0, 0, 0>>)
\* A 1x1 map: an A3 tile of shape 16.
WallMap == MapOf(1, 1, <<4368, 0, 0, 0, 0>>)

\* What LevelLoader.load is given: the map, the tileset names (an empty
\* name is a tileset that is not there) and the flags of the tileset.
Levels ==
    {[map |-> FloorMap, tilesetNames |-> SlotImages, flags |-> "table"],
     [map |-> TableMap, tilesetNames |-> <<"", "img1", "", "", "img4">>, flags |-> "table"],
     [map |-> WallMap, tilesetNames |-> <<"img0", "img1", "img2", "">>, flags |-> "plain"]}

OriginPoints == {Point(0, 0), Point(48, 0), Point(10, 10), NaNPoint}

\* The bitmap lists the host assigns: none; one more image than the third
\* level has (and fewer than the first has); one with a missing first image.
BitmapLists ==
    {<<>>, <<"img0", "img1", "img2", "img3">>, <<"undefined", "img1", "img2", "img3", "img4">>}

\* The inputs of a repaint as the renderer holds them.
CfgOf(bm, fl, map, hWrap, vWrap, pAll, w, h) ==
    [bitmaps |-> bm, flags |-> FlagArrays[fl], map |-> map,
     horizontalWrap |-> hWrap, verticalWrap |-> vWrap, paintAll |-> pAll,
     width |-> w, height |-> h, overpass |-> overpass]

Cfg == CfgOf(bitmaps, flags, mapData, horizontalWrap, verticalWrap, paintAll, width, height)

Layers == [lower |-> lowerLayer, upper |-> upperLayer, shadow |-> shadowLayer, err |-> FALSE]

\* new ShaderTilemap(w, h, pAll): nine empty layers, _createLayers (a forced
\* repaint) and refresh().
Constructed(w, h, pAll) ==
    LET R == [lower |-> [k \in 1..4 |-> NewComposite],
              upper |-> [k \in 1..4 |-> NewComposite],
              shadow |-> NewComposite, err |-> FALSE]
        o == Point(0, 0)
    IN  Then(CfgOf(<<>>, "plain", NoMap, FALSE, FALSE, pAll, w + margin * 2, h + margin * 2),
             LAMBDA cfg :
                 Then(repaintOf(R, cfg, o, NoStart, TRUE),
                      LAMBDA c : refreshOf(c.layers, cfg, o, c.lastStart, -1, c.position)))

\* The bitmaps LevelLoader.load pushes for the tileset names.
LoadedBitmaps(names) == [i \in 1..Len(names) |-> IF names[i] = "" THEN "undefined" ELSE names[i]]

\* The list without its trailing missing bitmaps.
RECURSIVE popMissing(_)
popMissing(bm) ==
    IF Len(bm) > 0 /\ bm[Len(bm)] = "undefined"
    THEN popMissing(SubSeq(bm, 1, Len(bm) - 1))
    ELSE bm

\* LevelLoader.load on one of the given levels.
LoadedFrom(levels) ==
    /\ IdleOther
    /\ IdleLayer
    /\ IdleGeom
    /\ IdleDraw
    /\ \E level \in levels, pAll \in BOOLEAN :
       \E made \in {Constructed(level.map.width * 48, level.map.height * 48, pAll)} :
         LET bm == popMissing(LoadedBitmaps(level.tilesetNames))
             w == level.map.width * 48 + margin * 2
             h == level.map.height * 48 + margin * 2
             o == Point(0, 0)
         IN  \E cfg \in {CfgOf(bm, level.flags, level.map, FALSE, FALSE, pAll, w, h)} :
             \E f \in {refreshOf(made.layers, cfg, o, made.lastStart,
                                  made.lastBitmapLength, made.position)} :
             /\ bitmaps = bm
             /\ flags = level.flags
             /\ mapData = level.map
             /\ paintAll = pAll
             /\ width = w
             /\ height = h
             /\ lastBitmapLength = f.lastBitmapLength
             /\ lastStart = f.lastStart
             /\ lowerLayer = f.layers.lower
             /\ upperLayer = f.layers.upper
             /\ shadowLayer = f.layers.shadow
             /\ position = f.position
             /\ rcall = [op |-> "load", force |-> TRUE, painted |-> f.painted,
                         err |-> f.layers.err, prev |-> "other"]
    /\ origin = Point(0, 0)
    /\ scrollOrigin = Point(0, 0)
    /\ horizontalWrap = FALSE
    /\ verticalWrap = FALSE
    /\ changes = 0

\* LevelLoader.load
Init == LoadedFrom(Levels)

\* What the last call was, for the call that follows it.
KindOf(c) ==
    IF c.op = "refresh" \/ (c.op = "repaint" /\ c.force) \/ c.op = "load"
    THEN IF c.painted THEN "forced" ELSE "failed"
    ELSE IF c.op = "repaint" THEN "unforced" ELSE "other"

Changed(op) ==
    /\ changes < MaxChanges
    /\ changes' = changes + 1
    /\ rcall' = [op |-> op, force |-> FALSE, painted |-> FALSE, err |-> FALSE,
                 prev |-> KindOf(rcall)]

\* tilemap.origin = p
SetOrigin(p) ==
    /\ p # origin
    /\ Changed("origin")
    /\ origin' = p
    /\ UNCHANGED <<bitmaps, flags, mapData, scrollOrigin, horizontalWrap, verticalWrap,
                   paintAll, width, height, lastBitmapLength, lastStart, lowerLayer,
                   upperLayer, shadowLayer, position, layerVars, geomVars, drawVars, otherVars>>

\* tilemap.scrollOrigin = p
SetScrollOrigin(p) ==
    /\ changes < MaxChanges
    /\ changes' = changes + 1
    /\ IF p.nan \/ scrollOrigin.nan \/ p.x # scrollOrigin.x \/ p.y # scrollOrigin.y
       THEN \E R \in {Layers}, cfg \in {Cfg} :
            \E r \in {repaintOf(R, cfg, origin, lastStart, FALSE)} :
                /\ scrollOrigin' = p
                /\ lastStart' = r.lastStart
                /\ lowerLayer' = r.layers.lower
                /\ upperLayer' = r.layers.upper
                /\ shadowLayer' = r.layers.shadow
                /\ position' = r.position
                /\ rcall' = [op |-> "scrollOrigin", force |-> FALSE, painted |-> r.painted,
                             err |-> r.layers.err, prev |-> KindOf(rcall)]
       ELSE /\ rcall' = [op |-> "scrollOrigin", force |-> FALSE, painted |-> FALSE,
                         err |-> FALSE, prev |-> KindOf(rcall)]
            /\ UNCHANGED <<scrollOrigin, lastStart, lowerLayer, upperLayer, shadowLayer,
                           position>>
    /\ UNCHANGED <<bitmaps, flags, mapData, origin, horizontalWrap, verticalWrap,
                   paintAll, width, height, lastBitmapLength, layerVars, geomVars,
                   drawVars, otherVars>>

\* setData(map.width, map.height, map.data)
SetData(map) ==
    /\ map # mapData
    /\ Changed("setData")
    /\ mapData' = map
    /\ UNCHANGED <<bitmaps, flags, origin, scrollOrigin, horizontalWrap, verticalWrap,
                   paintAll, width, height, lastBitmapLength, lastStart, lowerLayer,
                   upperLayer, shadowLayer, position, layerVars, geomVars, drawVars, otherVars>>

\* tilemap.horizontalWrap = h; tilemap.verticalWrap = v
SetWrap(h, v) ==
    /\ <<h, v>> # <<horizontalWrap, verticalWrap>>
    /\ Changed("wrap")
    /\ horizontalWrap' = h
    /\ verticalWrap' = v
    /\ UNCHANGED <<bitmaps, flags, mapData, origin, scrollOrigin,
                   paintAll, width, height, lastBitmapLength, lastStart, lowerLayer,
                   upperLayer, shadowLayer, position, layerVars, geomVars, drawVars, otherVars>>

\* tilemap.flags = the named flags array
SetFlags(fl) ==
    /\ fl # flags
    /\ Changed("flags")
    /\ flags' = fl
    /\ UNCHANGED <<bitmaps, mapData, origin, scrollOrigin, horizontalWrap, verticalWrap,
                   paintAll, width, height, lastBitmapLength, lastStart, lowerLayer,
                   upperLayer, shadowLayer, position, layerVars, geomVars, drawVars, otherVars>>

\* The host replaces the contents of tilemap.bitmaps.
SetBitmaps(bm) ==
    /\ bm # bitmaps
    /\ Changed("bitmaps")
    /\ bitmaps' = bm
    /\ UNCHANGED <<flags, mapData, origin, scrollOrigin, horizontalWrap, verticalWrap,
                   paintAll, width, height, lastBitmapLength, lastStart, lowerLayer,
                   upperLayer, shadowLayer, position, layerVars, geomVars, drawVars, otherVars>>

\* tilemap.refresh()
Refresh ==
    \E R \in {Layers}, cfg \in {Cfg} :
    \E f \in {refreshOf(R, cfg, origin, lastStart, lastBitmapLength, position)} :
        /\ lastBitmapLength' = f.lastBitmapLength
        /\ lastStart' = f.lastStart
        /\ lowerLayer' = f.layers.lower
        /\ upperLayer' = f.layers.upper
        /\ shadowLayer' = f.layers.shadow
        /\ position' = f.position
        /\ rcall' = [op |-> "refresh", force |-> TRUE, painted |-> f.painted,
                     err |-> f.layers.err, prev |-> KindOf(rcall)]
        /\ UNCHANGED <<bitmaps, flags, mapData, origin, scrollOrigin, horizontalWrap,
                       verticalWrap, paintAll, width, height, changes,
                       layerVars, geomVars, drawVars, otherVars>>

\* tilemap._repaint(force)
Repaint(force) ==
    \E R \in {Layers}, cfg \in {Cfg} :
    \E r \in {repaintOf(R, cfg, origin, lastStart, force)} :
        /\ lastStart' = r.lastStart
        /\ lowerLayer' = r.layers.lower
        /\ upperLayer' = r.layers.upper
        /\ shadowLayer' = r.layers.shadow
        /\ position' = r.position
        /\ rcall' = [op |-> "repaint", force |-> force, painted |-> r.painted,
                     err |-> r.layers.err, prev |-> KindOf(rcall)]
        /\ UNCHANGED <<bitmaps, flags, mapData, origin, scrollOrigin, horizontalWrap,
                       verticalWrap, paintAll, width, height, lastBitmapLength, changes,
                       layerVars, geomVars, drawVars, otherVars>>

Next ==
    \/ \E p \in OriginPoints : SetOrigin(p)
    \/ \E p \in OriginPoints : SetScrollOrigin(p)
    \/ \E level \in Levels : SetData(level.map)
    \/ \E h, v \in BOOLEAN : SetWrap(h, v)
    \/ \E fl \in DOMAIN FlagArrays : SetFlags(fl)
    \/ \E bm \in BitmapLists : SetBitmaps(bm)
    \/ Refresh
    \/ \E force \in BOOLEAN : Repaint(force)

Spec == Init /\ [][Next]_vars


(***************************************************************************)
(* Properties of the repaint controller (Spec).                            *)
(***************************************************************************)
\* The nine layers are after the step what they were before it.
LayersUnchanged ==
    /\ lowerLayer' = lowerLayer
    /\ upperLayer' = upperLayer
    /\ shadowLayer' = shadowLayer

\* C5: when _repaint(false) is called twice in a row (nothing is changed in
\* between), the second call leaves every buffer's command list as it was
\* after the first and clears no buffer.
UnforcedRepaintTwiceStep ==
    (rcall.op = "repaint" /\ ~rcall.force /\ rcall'.op = "repaint" /\ ~rcall'.force)
        => (LayersUnchanged /\ ~rcall'.painted)

ForcedCall(c) == c.op \in {"refresh", "load"} \/ (c.op = "repaint" /\ c.force)

\* C6: when two forced repaints are called in a row (nothing is changed in
\* between), the second leaves every layer with the same buffers and the
\* same command lists as the first left them.
ForcedRepaintTwiceStep ==
    (ForcedCall(rcall) /\ ForcedCall(rcall')) => LayersUnchanged

C6_ForcedRepaintIdempotent == [][ForcedRepaintTwiceStep]_vars

\* What does hold of repeated repaints.  A second unforced repaint never
\* changes a command list, NaN origin or not; it clears no buffer when the
\* origin has no NaN; and a forced repaint repeated by the same operation
\* leaves the layers as they were when neither call raised an error.
UnforcedRepaintKeepsLists ==
    [][(rcall.op = "repaint" /\ ~rcall.force /\ rcall'.op = "repaint" /\ ~rcall'.force)
           => LayersUnchanged]_vars

UnforcedRepaintNoClearUnlessNaN == [][origin.nan \/ UnforcedRepaintTwiceStep]_vars

SameForcedCallIdempotent ==
    [][(rcall.err \/ rcall'.err \/ rcall.op # rcall'.op) \/ ForcedRepaintTwiceStep]_vars

(***************************************************************************)
(* SpecScene: a ShaderTilemap built by LevelLoader.load on a small scene,  *)
(* whose host replaces the map or the flags and calls refresh(); the       *)
(* painting of a single cell, _paintTiles, is also taken as a step of its  *)
(* own on freshly cleared layers, so that what one cell adds can be read   *)
(* off the layers.                                                         *)
(***************************************************************************)
\* A 3x3 map whose cells all hold the A2 tile 2816; nothing in planes 1..4.
FlatMap == MapOf(3, 3, [i \in 1..45 |-> IF i <= 9 THEN 2816 ELSE 0])
\* A 1x2 map: an A1 tile above an A2 tile.
MixedMap == MapOf(1, 2, <<2048, 2816, 0, 0, 0, 0, 0, 0, 0, 0>>)
\* A 1x2 map: A5 ground; an A2 tile (kind 17, shape 3) in plane 1 of the
\* upper cell; a B tile in plane 2 of the lower cell; shadow values 3 and 21.
EdgeMap == MapOf(1, 2, <<1536, 1536, 2867, 0, 0, 2, 0, 0, 3, 21>>)
\* The same with an A2 tile in plane 1 of both cells; shadow values 16 and 15.
BothMap == MapOf(1, 2, <<1536, 1536, 2867, 2820, 0, 0, 0, 0, 16, 15>>)
\* The same with an A3 tile in plane 0 of the lower cell; shadow values 0, 8.
WallUnderMap == MapOf(1, 2, <<1536, 4352, 2867, 0, 0, 0, 0, 0, 0, 8>>)

\* The same with an A3 tile of shape 16 in plane 1 of the lower cell.
WallBelowMap == MapOf(1, 2, <<1536, 1536, 2867, 4368, 0, 0, 0, 0, 0, 0>>)

\* The levels of the scene; the last one names no tileset image at all.
SceneLevels ==
    {[map |-> FlatMap, tilesetNames |-> SlotImages, flags |-> "plain"],
     [map |-> WallBelowMap, tilesetNames |-> SlotImages, flags |-> "table"],
     [map |-> MixedMap, tilesetNames |-> <<"", "img1">>, flags |-> "plain"],
     [map |-> EdgeMap, tilesetNames |-> SlotImages, flags |-> "table"],
     [map |-> BothMap, tilesetNames |-> <<"img0">>, flags |-> "table"],
     [map |-> WallUnderMap, tilesetNames |-> <<"", "">>, flags |-> "table"]}

\* The cells of the window that _paintTiles is called on, per axis.
SceneCells == 0..2

InitScene == LoadedFrom(SceneLevels)

\* setData(map.width, map.height, map.data)
SceneSetData(map) ==
    /\ map # mapData
    /\ mapData' = map
    /\ rcall' = [op |-> "setData", force |-> FALSE, painted |-> FALSE, err |-> FALSE,
                 prev |-> KindOf(rcall)]
    /\ UNCHANGED <<bitmaps, flags, origin, scrollOrigin, horizontalWrap, verticalWrap,
                   paintAll, width, height, lastBitmapLength, lastStart, lowerLayer,
                   upperLayer, shadowLayer, position, changes,
                   layerVars, geomVars, drawVars, otherVars>>

\* tilemap.flags = the named flags array
SceneSetFlags(fl) ==
    /\ fl # flags
    /\ flags' = fl
    /\ rcall' = [op |-> "flags", force |-> FALSE, painted |-> FALSE, err |-> FALSE,
                 prev |-> KindOf(rcall)]
    /\ UNCHANGED <<bitmaps, mapData, origin, scrollOrigin, horizontalWrap, verticalWrap,
                   paintAll, width, height, lastBitmapLength, lastStart, lowerLayer,
                   upperLayer, shadowLayer, position, changes,
                   layerVars, geomVars, drawVars, otherVars>>

\* The clearing of the nine layers that _paintAllTiles starts with.
SceneClear ==
    /\ rcall.op # "clear"
    /\ \E r \in {clearLayers(Layers)} :
        /\ lowerLayer' = r.lower
        /\ upperLayer' = r.upper
        /\ shadowLayer' = r.shadow
    /\ rcall' = [op |-> "clear", force |-> FALSE, painted |-> FALSE, err |-> FALSE,
                 prev |-> KindOf(rcall)]
    /\ UNCHANGED <<bitmaps, flags, mapData, origin, scrollOrigin, horizontalWrap,
                   verticalWrap, paintAll, width, height, lastBitmapLength, lastStart,
                   position, changes, layerVars, geomVars, drawVars, otherVars>>

\* The start _paintAllTiles passes to _paintTiles.
SceneStart ==
    IF paintAll THEN [x |-> 0, y |-> 0, nan |-> FALSE]
    ELSE [x |-> lastStart.x, y |-> lastStart.y, nan |-> lastStart.nan]

\* _paintTiles(startX, startY, x, y) on layers that were just cleared.
ScenePaintTiles(x, y) ==
    /\ rcall.op = "clear"
    /\ \E R \in {Layers}, cfg \in {Cfg}, start \in {SceneStart} :
       \E p \in {paintTiles(cfg, start, x, y)} :
       \E r \in {tileLayers(R, p.calls, 1, Len(p.calls))} :
        /\ lowerLayer' = r.lower
        /\ upperLayer' = r.upper
        /\ shadowLayer' = r.shadow
        /\ rcall' = [op |-> "paintTiles", force |-> FALSE, painted |-> TRUE,
                     err |-> p.err, prev |-> KindOf(rcall), x |-> x, y |-> y]
    /\ UNCHANGED <<bitmaps, flags, mapData, origin, scrollOrigin, horizontalWrap,
                   verticalWrap, paintAll, width, height, lastBitmapLength, lastStart,
                   position, changes, layerVars, geomVars, drawVars, otherVars>>

\* The shadow values decoded on their own: no bit, single bits, all four
\* bits, bits above bit 3 alone and with lower bits, and a negative value.
ShadowValues == {0, 2, 3, 8, 15, 16, 21, 255, -1}

\* _drawShadow(this.shadowLayer, shadowBits, dx, dy) for the cell (x, y) of
\* the window, on layers that were just cleared.
SceneDrawShadow(shadowBits, x, y) ==
    /\ rcall.op = "clear"
    /\ \E lay \in {shadowLayer}, calls \in {drawShadow(shadowBits, x * tileWidth, y * tileHeight)} :
        shadowLayer' = tileAll(lay, calls, 1, Len(calls))
    /\ rcall' = [op |-> "drawShadow", force |-> FALSE, painted |-> FALSE, err |-> FALSE,
                 prev |-> KindOf(rcall), x |-> x, y |-> y, shadowBits |-> shadowBits]
    /\ UNCHANGED <<bitmaps, flags, mapData, origin, scrollOrigin, horizontalWrap,
                   verticalWrap, paintAll, width, height, lastBitmapLength, lastStart,
                   lowerLayer, upperLayer, position, changes,
                   layerVars, geomVars, drawVars, otherVars>>

NextScene ==
    \/ \E level \in SceneLevels : SceneSetData(level.map)
    \/ \E fl \in DOMAIN FlagArrays : SceneSetFlags(fl)
    \/ Refresh
    \/ SceneClear
    \/ \E x, y \in SceneCells : ScenePaintTiles(x, y)
    \/ \E m \in ShadowValues, x, y \in SceneCells : SceneDrawShadow(m, x, y)

SpecScene == InitScene /\ [][NextScene]_vars

(***************************************************************************)
(* Properties of the painted scene (SpecScene).                            *)
(***************************************************************************)
\* The image of tileset slot n is there.
SlotPresent(bm, n) == n + 1 \in DOMAIN bm /\ bm[n + 1] # "undefined"

\* The tile calls a full repaint makes on the layers, cell by cell.
RepaintCalls ==
    LET cols == IF paintAll THEN Max(mapData.width, 0) ELSE CeilDiv(width, tileWidth) + 1
        rows == IF paintAll THEN Max(mapData.height, 0) ELSE CeilDiv(height, tileHeight) + 1
    IN  paintCells(Cfg, SceneStart, cols, 0, cols * rows - 1).calls

\* The same without the calls of the tiles whose tileset image is missing
\* (the calls that draw a shadow name no tileset).
PresentCalls(calls) ==
    SelectSeq(calls, LAMBDA c : c.call.n = -1 \/ SlotPresent(bitmaps, c.call.n))

\* LevelLoader.load or refresh() has just repainted the layers.
JustRefreshed == rcall.op \in {"load", "refresh"} /\ rcall.painted /\ ~rcall.err

\* The layers hold what the given tile calls add to them once cleared.
LayersHold(calls) ==
    Layers = tileLayers(clearLayers(Layers), calls, 1, Len(calls))

\* After a refresh the layers hold what the repaint's tile calls added.
RefreshHoldsRepaintCalls == JustRefreshed => LayersHold(RepaintCalls)

\* C11: when the image of a declared tileset slot is missing while other
\* slots are present, after a refresh no buffer holds a draw command of a
\* map tile whose band maps to the missing slot: the layers hold the
\* commands of the tiles of the present slots and nothing else.
C11_MissingSlotNoDraw ==
    (JustRefreshed /\ \E n \in 0..8 : SlotPresent(bitmaps, n))
        => LayersHold(PresentCalls(RepaintCalls))

(***************************************************************************)
(* SpecRead: the map reading of the abstract class Tilemap.  The host sets *)
(* the map data and the wrap switches, and cells are read with             *)
(* _readMapData at coordinates inside and outside the map.                 *)
(***************************************************************************)
\* A 5x2 map of five planes in which every entry differs (entry i holds i).
WideMap == MapOf(5, 2, [i \in 1..50 |-> i])
\* The same map with a data array that stops in the middle of plane 0.
ShortMap == MapOf(5, 2, [i \in 1..7 |-> i])
\* A 1x3 map.
TallMap == MapOf(1, 3, [i \in 1..15 |-> 100 + i])
\* A map of width 0.
ZeroMap == MapOf(0, 2, <<>>)

ReadMaps == {WideMap, ShortMap, TallMap, ZeroMap}

\* The coordinates read.
ReadColumns == -6..6
ReadRows == -3..3
ReadPlanes == {-1, 0, 3, 4, 5}

InitRead ==
    /\ IdleOther
    /\ IdleLayer
    /\ IdleGeom
    /\ IdleDraw
    /\ IdleRend

\* setData(map.width, map.height, map.data)
ReadSetData(map) ==
    /\ map # mapData
    /\ mapData' = map
    /\ rcall' = [op |-> "setData"]
    /\ UNCHANGED <<bitmaps, flags, origin, scrollOrigin, horizontalWrap, verticalWrap,
                   paintAll, width, height, lastBitmapLength, lastStart, lowerLayer,
                   upperLayer, shadowLayer, position, changes,
                   layerVars, geomVars, drawVars, otherVars>>

\* tilemap.horizontalWrap = h; tilemap.verticalWrap = v
ReadSetWrap(h, v) ==
    /\ <<h, v>> # <<horizontalWrap, verticalWrap>>
    /\ horizontalWrap' = h
    /\ verticalWrap' = v
    /\ rcall' = [op |-> "wrap"]
    /\ UNCHANGED <<bitmaps, flags, mapData, origin, scrollOrigin,
                   paintAll, width, height, lastBitmapLength, lastStart, lowerLayer,
                   upperLayer, shadowLayer, position, changes,
                   layerVars, geomVars, drawVars, otherVars>>

\* _readMapData(x, y, z); no statement of it can throw.
ReadMapData(x, y, z) ==
    /\ rcall' = [op |-> "readMapData", x |-> x, y |-> y, z |-> z,
                 value |-> readMapData(mapData, horizontalWrap, verticalWrap, FALSE, x, y, z),
                 err |-> FALSE]
    /\ UNCHANGED <<bitmaps, flags, mapData, origin, scrollOrigin, horizontalWrap,
                   verticalWrap, paintAll, width, height, lastBitmapLength, lastStart,
                   lowerLayer, upperLayer, shadowLayer, position, changes,
                   layerVars, geomVars, drawVars, otherVars>>

NextRead ==
    \/ \E map \in ReadMaps : ReadSetData(map)
    \/ \E h, v \in BOOLEAN : ReadSetWrap(h, v)
    \/ \E x \in ReadColumns, y \in ReadRows, z \in ReadPlanes : ReadMapData(x, y, z)

SpecRead == InitRead /\ [][NextRead]_vars

(***************************************************************************)
(* Properties of the map reading (SpecRead).                               *)
(***************************************************************************)
\* The entry of the data array for column x, row y of plane z, 0 when the
\* array has no such entry.
EntryAt(map, x, y, z) ==
    LET at == (z * map.height + y) * map.width + x
    IN  IF at + 1 \in DOMAIN map.data THEN map.data[at + 1] ELSE 0

\* The last step read a cell.
JustRead == rcall.op = "readMapData"

\* C12: with horizontalWrap enabled, reading column x is reading column
\* (x mod width), the modulus never negative, for every integer x; the same
\* for verticalWrap and rows; the plane z is taken as it is.  (An axis
\* without wrap must be in range for an entry to be read.)
C12_WrapSemantics ==
    (/\ JustRead
     /\ mapData.defined
     /\ horizontalWrap \/ verticalWrap
     /\ horizontalWrap => mapData.width > 0
     /\ verticalWrap => mapData.height > 0)
        => LET x1 == IF horizontalWrap THEN rcall.x % mapData.width ELSE rcall.x
               y1 == IF verticalWrap THEN rcall.y % mapData.height ELSE rcall.y
           IN  /\ x1 \in 0..(mapData.width - 1) /\ y1 \in 0..(mapData.height - 1)
                    => rcall.value = EntryAt(mapData, x1, y1, rcall.z)
               /\ rcall.value =
                      readMapData(mapData, horizontalWrap, verticalWrap, FALSE, x1, y1, rcall.z)

\* Column -1 of the width-5 map was read with horizontalWrap, and what was
\* read is the entry of column 4; so for column 5 and column 0.
C12_Witness ==
    /\ JustRead
    /\ mapData = WideMap
    /\ horizontalWrap
    /\ ~verticalWrap
    /\ rcall.x = -1 /\ rcall.y = 1 /\ rcall.z = 3
    /\ rcall.value = EntryAt(WideMap, 4, 1, 3)
    /\ rcall.value # 0
    /\ readMapData(WideMap, TRUE, FALSE, FALSE, 5, 1, 3) = EntryAt(WideMap, 0, 1, 3)

\* C13: a read outside [0, width) on an axis without wrap, or outside
\* [0, height) likewise, a read when no map data is set and a read past the
\* end of a too-short data array all return 0, in every plane, and raise
\* no error.
C13_OutOfBoundsReads ==
    JustRead =>
        LET w == mapData.width
            h == mapData.height
            outside == \/ ~horizontalWrap /\ rcall.x \notin 0..(w - 1)
                       \/ ~verticalWrap /\ rcall.y \notin 0..(h - 1)
            x1 == IF horizontalWrap /\ w > 0 THEN rcall.x % w ELSE rcall.x
            y1 == IF verticalWrap /\ h > 0 THEN rcall.y % h ELSE rcall.y
            pastEnd == (rcall.z * h + y1) * w + x1 >= Len(mapData.data)
        IN  /\ ~rcall.err
            /\ (~mapData.defined \/ outside \/ pastEnd) => rcall.value = 0

\* Column -1 of the width-5 map was read without horizontalWrap, at a row
\* whose entry next to it in the data array is not 0, and 0 was read.
C13_Witness ==
    /\ JustRead
    /\ mapData = WideMap
    /\ ~horizontalWrap
    /\ rcall.x = -1 /\ rcall.y = 1 /\ rcall.z = 0
    /\ EntryAt(WideMap, -1, 1, 0) # 0
    /\ rcall.value = 0

(***************************************************************************)
(* Properties of the decoding of a cell (SpecScene).                       *)
(***************************************************************************)
\* The place and the size of every command of a buffer, in order.
QuadsOf(tm) ==
    [i \in 1..Len(tm.pointsBuf) |->
        <<tm.pointsBuf[i].x, tm.pointsBuf[i].y,
          tm.pointsBuf[i].tileWidth, tm.pointsBuf[i].tileHeight>>]

\* The quadrants 0..3 whose bit is set in the shadow value m, in order.
QuadrantsOf(m) == SelectSeq(<<0, 1, 2, 3>>, LAMBDA i : (m \div (2 ^ i)) % 2 = 1)

\* One half-tile quad per set bit among bits 0..3 of m, the quad of bit i
\* at offset ((i mod 2) * tileWidth / 2, floor(i / 2) * tileHeight / 2) of
\* the cell whose corner is (dx, dy).
ShadowQuads(m, dx, dy) ==
    LET q == QuadrantsOf(m)
    IN  [n \in 1..Len(q) |->
            <<dx + (q[n] % 2) * (tileWidth \div 2),
              dy + (q[n] \div 2) * (tileHeight \div 2),
              tileWidth \div 2, tileHeight \div 2>>]

\* C14: for every shadow value m, exactly one quad per set bit among bits
\* 0..3 of m is added to the dedicated shadow buffer (the buffer of the
\* shadow texture in the shadow layer) and to no other buffer; the quad of
\* bit i is at offset ((i mod 2) * tileWidth / 2, floor(i / 2) * tileHeight
\* / 2) of the cell and is half a tile wide and high; bits above bit 3 add
\* nothing.
ShadowDecodingStep ==
    rcall'.op = "drawShadow" =>
        LET quads == ShadowQuads(rcall'.shadowBits,
                                 rcall'.x * tileWidth, rcall'.y * tileHeight)
            had == shadowLayer.shadowId # -1
            before == IF had THEN QuadsOf(Child(shadowLayer, shadowLayer.shadowId))
                      ELSE <<>>
        IN  /\ lowerLayer' = lowerLayer
            /\ upperLayer' = upperLayer
            /\ IF Len(quads) = 0 THEN shadowLayer' = shadowLayer
               ELSE /\ shadowLayer'.shadowId # -1
                    /\ had => shadowLayer'.shadowId = shadowLayer.shadowId
                    /\ Len(shadowLayer'.children) =
                           Len(shadowLayer.children) + (IF had THEN 0 ELSE 1)
                    /\ \A j \in 1..Len(shadowLayer.children) :
                           j # shadowLayer'.shadowId + 1
                               => shadowLayer'.children[j] = shadowLayer.children[j]
                    /\ Child(shadowLayer', shadowLayer'.shadowId).baseTexture = shadowTexture
                    /\ QuadsOf(Child(shadowLayer', shadowLayer'.shadowId)) = before \o quads

QuadSet(lay) ==
    UNION {{QuadsOf(lay.children[j])[i] : i \in 1..Len(lay.children[j].pointsBuf)} :
               j \in 1..Len(lay.children)}

\* The flat plain scene, fully repainted: the 3x3 map of tile 2816 (A2, not
\* a table, not higher), no shadow bits, no wrap, the A2 image present, and
\* the whole map inside the painted window.
FlatScenePainted ==
    /\ JustRefreshed
    /\ mapData = FlatMap
    /\ flags = "plain"
    /\ ~horizontalWrap /\ ~verticalWrap
    /\ SlotPresent(bitmaps, 1)
    /\ origin = Point(0, 0)
    /\ \/ paintAll
       \/ /\ width >= mapData.width * tileWidth + margin * 2
          /\ height >= mapData.height * tileHeight + margin * 2

\* Nothing is routed to the lower layers 1..3, the upper layers and the
\* shadow layer.
OnlyLowerLayer0 ==
    /\ \A k \in 2..4 : CmdCount(lowerLayer[k]) = 0
    /\ \A k \in 1..4 : CmdCount(upperLayer[k]) = 0
    /\ CmdCount(shadowLayer) = 0

\* C15 as claimed: in the flat plain scene a full repaint routes exactly 9
\* autotile quads into the lower composite layer and no quad into the upper
\* layers and the shadow layer.
C15_FlatSceneNineQuads ==
    FlatScenePainted => (CmdCount(lowerLayer[1]) = 9 /\ OnlyLowerLayer0)

\* C15 as the code has it: the 9 autotiles are routed into lower layer 0 as
\* 36 quads, the four half-tile quadrants of each of the 9 cells, and no
\* quad is routed into the other lower layers, the upper layers and the
\* shadow layer.
C15_FlatSceneQuadrants ==
    FlatScenePainted =>
        LET first == IF paintAll THEN 0 ELSE -lastStart.x
            cells == first..(first + 2)
        IN  /\ CmdCount(lowerLayer[1]) = 36
            /\ QuadSet(lowerLayer[1]) =
                   {<<cx * tileWidth + qx * (tileWidth \div 2),
                      cy * tileHeight + qy * (tileHeight \div 2),
                      tileWidth \div 2, tileHeight \div 2>> :
                        cx \in cells, cy \in cells, qx \in 0..1, qy \in 0..1}
            /\ OnlyLowerLayer0

\* The flat plain scene has been repainted and lower layer 0 holds quads.
C15_Witness == FlatScenePainted /\ CmdCount(lowerLayer[1]) > 0

\* The commands of the buffers 1..n of a layer that are a quarter of a tile
\* high (the height of a table-edge quad; the quads of a normal tile are a
\* tile high and the quadrants of an autotile half a tile), buffer by
\* buffer: place, size and source place of each.
RECURSIVE EdgeQuadsUpTo(_, _)
EdgeQuadsUpTo(lay, n) ==
    IF n = 0 THEN <<>>
    ELSE LET strip == SelectSeq(lay.children[n].pointsBuf,
                                LAMBDA p : p.tileHeight = tileHeight \div 4)
         IN  EdgeQuadsUpTo(lay, n - 1) \o
             [i \in 1..Len(strip) |-> <<strip[i].x, strip[i].y, strip[i].tileWidth,
                                        strip[i].tileHeight, strip[i].u, strip[i].v>>]

EdgeQuads(lay) == EdgeQuadsUpTo(lay, Len(lay.children))

\* The table-edge strip of the cell whose corner is (dx, dy) under the
\* table tile upperTileId: the quadrants 2 and 3 of the FLOOR table entry
\* of its shape, the upper half cut off.
EdgeStrip(upperTileId, dx, dy) ==
    LET kind == (upperTileId - TILE_ID_A1) \div 48
        shape == (upperTileId - TILE_ID_A1) % 48
        bx == (kind % 8) * 2
        by == ((kind \div 8) - 2) * 3
        entry == FLOOR_AUTOTILE_TABLE[shape + 1]
        half == tileWidth \div 2
    IN  [n \in 1..2 |->
            <<dx + (n - 1) * half, dy, half, tileHeight \div 4,
              (bx * 2 + entry[n + 2][1]) * half,
              (by * 2 + entry[n + 2][2]) * (tileHeight \div 2) + (tileHeight \div 4)>>]

\* The tiles _paintTiles reads for the cell (x, y) of the window.
CellRead(x, y, z) ==
    readMapData(mapData, horizontalWrap, verticalWrap, SceneStart.nan,
                SceneStart.x + x, SceneStart.y + y, z)

\* The table-edge condition of the cell (x, y): the plane-1 tile of the
\* cell above is a table tile (A2 with flag 0x80), the plane-1 tile of the
\* cell is not, and the plane-0 tile of the cell is neither A3 nor A4.
EdgeCondition(x, y) ==
    LET isTable(id) == isTileA2(id) /\ FlagSet(FlagArrays[flags], id, 128)
    IN  /\ isTable(CellRead(x, y - 1, 1))
        /\ ~isTable(CellRead(x, y, 1))
        /\ ~(isTileA3(CellRead(x, y, 0)) \/ isTileA4(CellRead(x, y, 0)))

\* What the painting of the cell (x, y) on cleared layers has left of table
\* edges: the strip of 2 quads in lower layer 2 when the condition holds,
\* no such quad in lower layer 2 when it does not, and none in the layers
\* of the planes 0 and 3 and in the shadow layer in either case.
EdgePainted(x, y) ==
    /\ EdgeQuads(lowerLayer'[3]) =
           IF EdgeCondition(x, y)
           THEN EdgeStrip(CellRead(x, y - 1, 1), x * tileWidth, y * tileHeight)
           ELSE <<>>
    /\ \A k \in {1, 4} : EdgeQuads(lowerLayer'[k]) = <<>> /\ EdgeQuads(upperLayer'[k]) = <<>>
    /\ EdgeQuads(upperLayer'[3]) = <<>>
    /\ EdgeQuads(shadowLayer') = <<>>

\* C16: when the plane-1 tile of the cell directly above is a table tile,
\* the plane-1 tile of the current cell is not a table tile and the current
\* cell's plane-0 tile is not an A3/A4 tile, exactly one table-edge strip of
\* 2 quads is added at the current cell to lower layer 2, built from
\* quadrants 2 and 3 of the FLOOR table entry for the shape of the upper
\* cell's tile; in every other case no table-edge quad is added for the cell.
TableEdgeStep ==
    rcall'.op = "paintTiles" => EdgePainted(rcall'.x, rcall'.y)

C16_TableEdge == [][TableEdgeStep]_vars

\* What does hold of the table edge: the statement of C16 for every cell
\* whose painting raised no error, on a lower layer 2 that holds a buffer.
TableEdgeWhenDrawn ==
    [][(rcall'.op = "paintTiles" /\ ~rcall'.err /\ Len(lowerLayer[3].children) > 0)
           => EdgePainted(rcall'.x, rcall'.y)]_vars

\* A strip has been painted under a table tile.
TableEdgeSeen ==
    /\ rcall.op = "paintTiles"
    /\ ~rcall.err
    /\ Len(EdgeQuads(lowerLayer[3])) = 2

(***************************************************************************)
(* Properties of the batch buffer (SpecGeom).                              *)
(***************************************************************************)
\* The box b contains the rectangle [x0, x1] x [y0, y1].
BoxHolds(b, x0, y0, x1, y1) ==
    /\ ~b.empty
    /\ b.minX <= x0 /\ x1 <= b.maxX
    /\ b.minY <= y0 /\ y1 <= b.maxY

\* The box of the buffer contains the rectangle of every command it holds.
BoundsHoldCommands ==
    \A i \in 1..Len(tilemap.pointsBuf) :
        LET p == tilemap.pointsBuf[i]
        IN  BoxHolds(tilemap.tilemapBounds, p.x, p.y, p.x + p.tileWidth, p.y + p.tileHeight)

\* A step other than clear() leaves the box at least as large as it was.
BoundsGrowStep ==
    (gcall' # "clear" /\ ~tilemap.tilemapBounds.empty) =>
        BoxHolds(tilemap'.tilemapBounds,
                 tilemap.tilemapBounds.minX, tilemap.tilemapBounds.minY,
                 tilemap.tilemapBounds.maxX, tilemap.tilemapBounds.maxY)

\* C17: after any sequence of tile() calls since the last clear(), the
\* buffer's bounding box contains the rectangle [x, x + tileWidth] x
\* [y, y + tileHeight] of every command in its list; between two clears the
\* box never shrinks; directly after clear() the box is empty.
C17_BoundsInvariant ==
    /\ [](BoundsHoldCommands /\ (gcall = "clear" => tilemap.tilemapBounds.empty))
    /\ [][BoundsGrowStep]_vars

\* Two commands at different places are held, and the box is larger than
\* the rectangle of either.
C17_Witness ==
    /\ gcall = "tile"
    /\ Len(tilemap.pointsBuf) = 2
    /\ tilemap.pointsBuf[1].x # tilemap.pointsBuf[2].x
    /\ \A i \in 1..2 :
         tilemap.tilemapBounds.maxX - tilemap.tilemapBounds.minX
             > tilemap.pointsBuf[i].tileWidth

(***************************************************************************)
(* SpecAnim: one batch buffer under tile(), clear() and setTileAnim(), and *)
(* a caller that builds its geometry anew (no geometry handed in).         *)
(***************************************************************************)
\* The tiles tile() is called with: a still one; one animated along both
\* axes over strips of 2 cells with the stride 8; one with a negative
\* stride along x and the divisor 2.
AnimTiles == {[x |-> 0, y |-> 0,
               options |-> [u |-> 48, v |-> 24, tileWidth |-> 24, tileHeight |-> 24]],
              [x |-> 0, y |-> 24,
               options |-> [u |-> 16, v |-> 32, tileWidth |-> 8, tileHeight |-> 8,
                            animX |-> 8, animY |-> 8, animCountX |-> 2, animCountY |-> 2,
                            animDivisor |-> 1]],
              [x |-> 8, y |-> 24,
               options |-> [u |-> 16, v |-> 32, tileWidth |-> 8, tileHeight |-> 8,
                            animX |-> -8, animCountX |-> 2, animDivisor |-> 2]]}

\* The values setTileAnim() is called with, in hundredths: 0.49 and 0.51
\* on either axis, and 1.5 with a negative value.
AnimClocks == {[x |-> 0, y |-> 0], [x |-> 49, y |-> 51], [x |-> 51, y |-> 49],
               [x |-> 150, y |-> -51]}

InitAnim ==
    /\ IdleOther
    /\ IdleLayer
    /\ IdleDraw
    /\ IdleRend
    /\ tilemap = NewTilemap(TexA)
    /\ kept = NoGeometry
    /\ latest = NoGeometry
    /\ built = "none"
    /\ gcall = "new"

\* Tilemap.tile(undefined, x, y, options)
ATile ==
    /\ Len(tilemap.pointsBuf) < MaxPoints
    /\ \E t \in AnimTiles : tilemap' = TilemapTile(tilemap, NoTexture, t.x, t.y, t.options)
    /\ gcall' = "tile"
    /\ UNCHANGED <<kept, latest, built, layerVars, drawVars, rendVars, otherVars>>

\* Tilemap.clear()
AClear ==
    /\ tilemap' = TilemapClear(tilemap)
    /\ gcall' = "clear"
    /\ UNCHANGED <<kept, latest, built, layerVars, drawVars, rendVars, otherVars>>

\* Tilemap.setTileAnim(value)
ASetTileAnim ==
    /\ \E value \in AnimClocks : tilemap' = TilemapSetTileAnim(tilemap, value)
    /\ gcall' = "setTileAnim"
    /\ UNCHANGED <<kept, latest, built, layerVars, drawVars, rendVars, otherVars>>

\* Tilemap._computeGeometriesBatched() without a geometry.
ABuild ==
    /\ latest' = computeGeometriesBatched(tilemap, NoGeometry).geometry
    /\ built' = "latest"
    /\ gcall' = "build"
    /\ UNCHANGED <<tilemap, kept, layerVars, drawVars, rendVars, otherVars>>

NextAnim ==
    \/ ATile
    \/ AClear
    \/ ASetTileAnim
    \/ ABuild

SpecAnim == InitAnim /\ [][NextAnim]_vars

(***************************************************************************)
(* Properties of the animation offsets (SpecAnim), read off the uvs of the *)
(* geometry that was built: the offset of command i along x is the first   *)
(* u of its quad less the u of the command, and likewise along y.          *)
(***************************************************************************)
OffsetX(i) == latest.uvs[8 * (i - 1) + 1][1] - tilemap.pointsBuf[i].u
OffsetY(i) == latest.uvs[8 * (i - 1) + 2][1] - tilemap.pointsBuf[i].v

\* floor(clock / animDivisor + 0.5) for a clock in hundredths.
NearestFrame(clock, animDivisor) == (clock + 50 * animDivisor) \div (100 * animDivisor)

\* The offset is the stride times the cell the frame selects in a strip of
\* `count` cells: a number congruent to the frame modulo count, of less
\* than count in size, and not negative when the frame is not.
SnapsTo(offset, stride, frame, count) ==
    \E cell \in (1 - count)..(count - 1) :
        /\ offset = stride * cell
        /\ (frame - cell) % count = 0
        /\ frame >= 0 => cell >= 0

\* C18: the animation cell of a command is floor(clock / animDivisor + 0.5)
\* mod animCountX (nearest rounding, not truncation): with animDivisor = 1,
\* animCountX = 2, animX = 8 the clock 0.49 selects cell 0 (u offset 0) and
\* 0.51 selects cell 1 (u offset 8); the same along y.
C18_AnimationSnap ==
    gcall = "build" =>
        \A i \in 1..Len(tilemap.pointsBuf) :
            LET p == tilemap.pointsBuf[i]
            IN  /\ p.animX # 0 =>
                       SnapsTo(OffsetX(i), p.animX,
                               NearestFrame(tilemap.tileAnim.x, p.animDivisor), p.animCountX)
                /\ p.animY # 0 =>
                       SnapsTo(OffsetY(i), p.animY,
                               NearestFrame(tilemap.tileAnim.y, p.animDivisor), p.animCountY)

\* The geometry was built at the clock (0.51, 0.49) for a command with
\* animDivisor = 1, strips of 2 cells and the stride 8 on both axes: its u
\* offset is 8 (cell 1) and its v offset is 0 (cell 0).
C18_Witness ==
    /\ gcall = "build"
    /\ tilemap.tileAnim = [x |-> 51, y |-> 49]
    /\ Len(tilemap.pointsBuf) >= 1
    /\ tilemap.pointsBuf[1].animX = 8 /\ tilemap.pointsBuf[1].animCountX = 2
    /\ tilemap.pointsBuf[1].animDivisor = 1
    /\ OffsetX(1) = 8
    /\ OffsetY(1) = 0

\* C19: for every command and every animation clock value, the offset added
\* to u is 0 when animX is not positive and otherwise is animX * k for some
\* k with 0 <= k < animCountX; the same for v with animY and animCountY.
C19_OffsetsInStrip ==
    gcall = "build" =>
        \A i \in 1..Len(tilemap.pointsBuf) :
            LET p == tilemap.pointsBuf[i]
            IN  /\ IF p.animX > 0
                   THEN \E k \in 0..(p.animCountX - 1) : OffsetX(i) = p.animX * k
                   ELSE OffsetX(i) = 0
                /\ IF p.animY > 0
                   THEN \E k \in 0..(p.animCountY - 1) : OffsetY(i) = p.animY * k
                   ELSE OffsetY(i) = 0

\* What does hold of the offsets: the statement of C19 for the commands
\* whose strides are not negative, at clock values that are not negative.
OffsetsInStripForward ==
    (gcall = "build" /\ tilemap.tileAnim.x >= 0 /\ tilemap.tileAnim.y >= 0) =>
        \A i \in 1..Len(tilemap.pointsBuf) :
            LET p == tilemap.pointsBuf[i]
            IN  (p.animX >= 0 /\ p.animY >= 0) =>
                    /\ IF p.animX > 0
                       THEN \E k \in 0..(p.animCountX - 1) : OffsetX(i) = p.animX * k
                       ELSE OffsetX(i) = 0
                    /\ IF p.animY > 0
                       THEN \E k \in 0..(p.animCountY - 1) : OffsetY(i) = p.animY * k
                       ELSE OffsetY(i) = 0

(***************************************************************************)
(* SpecIds: the autotile ID helpers of the abstract class Tilemap.  An ID  *)
(* is made from a kind and a shape with makeAutotileId and then taken      *)
(* apart with getAutotileKind and getAutotileShape.                        *)
(***************************************************************************)
\* The kinds and shapes IDs are made from: the kinds [0, 16) and the first
\* kinds beyond, the shapes [0, 48) and the first shape beyond.
IdKinds == 0..17
IdShapes == 0..48

InitIds ==
    /\ IdleOther
    /\ IdleLayer
    /\ IdleGeom
    /\ IdleRend
    /\ dlayer = NewComposite
    /\ dflags = "plain"
    /\ dcall = [op |-> "new", tileId |-> 0, err |-> FALSE, added |-> 0]

\* Tilemap.makeAutotileId(kind, shape)
MakeAutotileId(kind, shape) ==
    /\ dcall' = [op |-> "makeAutotileId", kind |-> kind, shape |-> shape,
                 tileId |-> makeAutotileId(kind, shape)]
    /\ UNCHANGED <<dlayer, dflags, layerVars, geomVars, rendVars, otherVars>>

\* Tilemap.getAutotileKind(tileId) and Tilemap.getAutotileShape(tileId) of
\* the ID that was made.
DecodeAutotileId ==
    /\ dcall.op = "makeAutotileId"
    /\ dcall' = [op |-> "decode", kind |-> dcall.kind, shape |-> dcall.shape,
                 tileId |-> dcall.tileId,
                 gotKind |-> getAutotileKind(dcall.tileId),
                 gotShape |-> getAutotileShape(dcall.tileId)]
    /\ UNCHANGED <<dlayer, dflags, layerVars, geomVars, rendVars, otherVars>>

NextIds ==
    \/ \E kind \in IdKinds, shape \in IdShapes : MakeAutotileId(kind, shape)
    \/ DecodeAutotileId

SpecIds == InitIds /\ [][NextIds]_vars

\* C20: for every kind in [0, 16) and every shape in [0, 48),
\* getAutotileKind(makeAutotileId(kind, shape)) = kind and
\* getAutotileShape(makeAutotileId(kind, shape)) = shape.
C20_AutotileIdRoundTrip ==
    (dcall.op = "decode" /\ dcall.kind \in 0..15 /\ dcall.shape \in 0..47)
        => (dcall.gotKind = dcall.kind /\ dcall.gotShape = dcall.shape)

\* The ID of the last kind and the last shape of the range was made and
\* taken apart again.
C20_Witness ==
    /\ dcall.op = "decode"
    /\ dcall.kind = 15 /\ dcall.shape = 47
    /\ dcall.tileId = 2815
    /\ dcall.gotKind = 15 /\ dcall.gotShape = 47

(***************************************************************************)
(* Properties of the scroll origin (Spec).                                 *)
(***************************************************************************)
\* The step sets the scroll origin of a viewport-mode renderer to a point
\* (without NaN) that differs from the current one.
ScrollOriginSet ==
    /\ rcall'.op = "scrollOrigin"
    /\ ~paintAll
    /\ scrollOrigin' # scrollOrigin
    /\ ~scrollOrigin'.nan

\* The nine layers are after the step what _paintAllTiles makes of them for
\* the window at the given start.
RepaintedAt(start) ==
    \E R \in {Layers}, cfg \in {Cfg} :
    \E r \in {paintAllTiles(R, cfg, start)} :
        /\ lowerLayer' = r.lower
        /\ upperLayer' = r.upper
        /\ shadowLayer' = r.shadow

\* C21: in viewport mode, after the scroll origin is set to a point p that
\* differs from the current one, the recorded last-painted start is
\* (floor((p.x - margin) / tileWidth), floor((p.y - margin) / tileHeight));
\* when that start differs from the one painted before, all layers have
\* been cleared and painted again for the window at the new start, and when
\* it is the same no layer is modified.
ScrollOriginRepaintStep ==
    ScrollOriginSet =>
        /\ lastStart' = startOf(scrollOrigin')
        /\ lastStart' # lastStart => RepaintedAt(startOf(scrollOrigin'))
        /\ lastStart' = lastStart => LayersUnchanged

C21_ScrollOriginDrivesRepaint == [][ScrollOriginRepaintStep]_vars

\* What does hold: the start recorded and painted after the scroll origin
\* is set is the one of the container's origin, which the setter leaves as
\* it is.
ScrollOriginRepaintsAtOrigin ==
    [][(ScrollOriginSet /\ ~origin.nan) =>
          /\ lastStart' = startOf(origin)
          /\ lastStart' # lastStart => RepaintedAt(startOf(origin))
          /\ lastStart' = lastStart => LayersUnchanged]_vars

(***************************************************************************)
(* Properties of the repaint walk (SpecScene).                             *)
(***************************************************************************)
\* The tile calls of the first n cells of a cols-wide window, every cell
\* decoded once (all six steps of it), row by row, at the destination
\* (x * tileWidth, y * tileHeight).
RECURSIVE EveryCellCalls(_, _, _, _)
EveryCellCalls(cfg, start, cols, n) ==
    IF n = 0 THEN <<>>
    ELSE EveryCellCalls(cfg, start, cols, n - 1)
            \o Then(cellSteps(cfg, start, (n - 1) % cols, (n - 1) \div cols), LAMBDA step :
                    step[1].calls \o step[2].calls \o step[3].calls \o step[4].calls
                        \o step[5].calls \o step[6].calls)

\* The window of a repaint: the whole map grid in paint-all mode, and
\* ceil(width / tileWidth) + 1 by ceil(height / tileHeight) + 1 cells in
\* viewport mode.
WindowCols == IF paintAll THEN Max(mapData.width, 0) ELSE CeilDiv(width, tileWidth) + 1
WindowRows == IF paintAll THEN Max(mapData.height, 0) ELSE CeilDiv(height, tileHeight) + 1

\* C22: every repaint that paints first clears all nine layers and then
\* decodes exactly the cells of its window (the full map grid in paint-all
\* mode, the cells (startX + x, startY + y) of the viewport window
\* otherwise), each cell once, in row-major order, at the destination
\* (x * tileWidth, y * tileHeight).
C22_RepaintCoverage ==
    (rcall.op \in {"load", "refresh"} /\ rcall.painted)
        => LayersHold(EveryCellCalls(Cfg, SceneStart, WindowCols, WindowCols * WindowRows))

\* What does hold: a repaint in which no draw raises an error leaves in
\* the layers the calls of every cell of its window.
RepaintCoversWindow ==
    JustRefreshed
        => LayersHold(EveryCellCalls(Cfg, SceneStart, WindowCols, WindowCols * WindowRows))

(***************************************************************************)
(* Properties of the order of the commands (SpecScene).                    *)
(***************************************************************************)
\* The layers were painted by the last call: by a repaint, or by
\* _paintTiles for one cell.
JustPainted == rcall.op \in {"load", "refresh", "paintTiles"} /\ rcall.painted

\* The cell of the window that a command belongs to.
CellOf(p) == [x |-> p.x \div tileWidth, y |-> p.y \div tileHeight]

\* The cell of p is walked before the cell of q: an upper row, or the same
\* row and a column to the left.
WalkedBefore(p, q) ==
    \/ CellOf(p).y < CellOf(q).y
    \/ CellOf(p).y = CellOf(q).y /\ CellOf(p).x < CellOf(q).x

\* The step of _paintTiles that issued a command found in the given layer:
\* 1 and 2 for the tiles of the planes 0 and 1, 3 for the shadow, 4 for the
\* table edge (the quads a quarter of a tile high in lower layer 2), 5 and
\* 6 for the tiles of the planes 2 and 3.
StepOf(group, k, p) ==
    IF group = "shadow" THEN 3
    ELSE IF k = 0 THEN 1
    ELSE IF k = 1 THEN 2
    ELSE IF k = 3 THEN 6
    ELSE IF group = "lower" /\ p.tileHeight = tileHeight \div 4 THEN 4
    ELSE 5

\* In every buffer of the layer, the commands of an earlier cell precede
\* those of a later cell, and the commands of one cell are in step order.
InDecodeOrder(group, k, lay) ==
    \A c \in 1..Len(lay.children) :
        LET buf == lay.children[c].pointsBuf
        IN  \A i, j \in 1..Len(buf) :
                i < j =>
                    \/ WalkedBefore(buf[i], buf[j])
                    \/ /\ CellOf(buf[i]) = CellOf(buf[j])
                       /\ StepOf(group, k, buf[i]) <= StepOf(group, k, buf[j])

\* C23: for every painted cell the commands are issued in the order plane-0
\* tile, plane-1 tile, shadow, table edge, plane-2 tile, plane-3 tile, so
\* that within any single buffer the commands of one cell are in that order
\* and all commands of an earlier-walked cell precede those of a
\* later-walked cell.
C23_DecodeOrder ==
    JustPainted =>
        /\ \A k \in 0..3 : InDecodeOrder("lower", k, lowerLayer[k + 1])
        /\ \A k \in 0..3 : InDecodeOrder("upper", k, upperLayer[k + 1])
        /\ InDecodeOrder("shadow", 0, shadowLayer)

\* A repaint has left, in one buffer of lower layer 2, the table edge of a
\* cell followed by the plane-2 tile of the same cell, and in one buffer of
\* lower layer 0 the tiles of two cells.
C23_Witness ==
    /\ rcall.op = "refresh"
    /\ rcall.painted
    /\ \E c \in 1..Len(lowerLayer[3].children) :
           LET buf == lowerLayer[3].children[c].pointsBuf
           IN  \E i, j \in 1..Len(buf) :
                   /\ i < j
                   /\ CellOf(buf[i]) = CellOf(buf[j])
                   /\ buf[i].tileHeight = tileHeight \div 4
                   /\ buf[j].tileHeight = tileHeight
    /\ \E c \in 1..Len(lowerLayer[1].children) :
           LET buf == lowerLayer[1].children[c].pointsBuf
           IN  \E i, j \in 1..Len(buf) : i < j /\ WalkedBefore(buf[i], buf[j])

(***************************************************************************)
(* SpecRoute: a ShaderTilemap built by LevelLoader.load on a map whose     *)
(* cells hold the B tiles 1 and 2 in their four planes.  The host replaces *)
(* the flags, installs or removes an override of _isOverpassPosition, and  *)
(* calls refresh(); the painting of a single cell on cleared layers is a   *)
(* step of its own.                                                        *)
(***************************************************************************)
\* A 2x1 map: tile 1 in the planes 0 and 3 and tile 2 in the planes 1 and 2
\* of the left cell, the other way round in the right cell; no shadow.
RouteMap == MapOf(2, 1, <<1, 2, 2, 1, 2, 1, 1, 2, 0, 0>>)

\* Under the flags "table" tile 1 carries flag 0x10 and tile 2 does not.
RouteLevels ==
    {[map |-> RouteMap, tilesetNames |-> SlotImages, flags |-> "table"],
     [map |-> RouteMap, tilesetNames |-> SlotImages, flags |-> "plain"]}

InitRoute == LoadedFrom(RouteLevels)

\* The renderer is given (or loses) a subclass override of
\* _isOverpassPosition that returns b for every cell.
RouteOverride(b) ==
    /\ b # overpass
    /\ overpass' = b
    /\ rcall' = [op |-> "override", force |-> FALSE, painted |-> FALSE, err |-> FALSE,
                 prev |-> KindOf(rcall)]
    /\ UNCHANGED <<bitmaps, flags, mapData, origin, scrollOrigin, horizontalWrap,
                   verticalWrap, paintAll, width, height, lastBitmapLength, lastStart,
                   lowerLayer, upperLayer, shadowLayer, position, changes,
                   layerVars, geomVars, drawVars, clockVars, pipeVars, offsetVars,
                   boundsVars, pipesVars, viewVars>>

NextRoute ==
    \/ \E b \in BOOLEAN : RouteOverride(b)
    \/ \E fl \in DOMAIN FlagArrays : SceneSetFlags(fl)
    \/ Refresh
    \/ SceneClear
    \/ \E x, y \in SceneCells : ScenePaintTiles(x, y)

SpecRoute == InitRoute /\ [][NextRoute]_vars

(***************************************************************************)
(* Properties of the routing (SpecRoute).                                  *)
(***************************************************************************)
\* The layer holds what the given tile calls add to it once cleared.
LayerHolds(lay, calls) == lay = tileAll(CompositeClear(lay), calls, 1, Len(calls))

\* The plane-k tile of the cell (x, y) of the window belongs to the upper
\* layer: its flags have bit 0x10 set, or k is 2 or 3 and the overpass
\* predicate holds.
RoutedUp(x, y, k) ==
    LET id == CellRead(x, y, k)
        F == FlagArrays[flags]
    IN  \/ id \in DOMAIN F /\ (F[id] \div 16) % 2 = 1
        \/ k \in {2, 3} /\ overpass

\* The tile calls of the plane-k tile of the cell (x, y) of the window.
PlaneCalls(x, y, k) ==
    drawTile(FlagArrays[flags], CellRead(x, y, k), x * tileWidth, y * tileHeight).calls

\* The tile calls of the table edge of the cell (x, y) of the window.
EdgeCalls(x, y) ==
    IF EdgeCondition(x, y)
    THEN drawTableEdge(CellRead(x, y - 1, 1), x * tileWidth, y * tileHeight)
    ELSE <<>>

\* The planes of the cell (x, y), painted on cleared layers, are where the
\* routing says: the commands of plane k in upper layer k or in lower
\* layer k (after the table edge, in lower layer 2), and nothing else in
\* either.
RoutedCell(x, y) ==
    \A k \in 0..3 :
        LET calls == PlaneCalls(x, y, k)
            edge == IF k = 2 THEN EdgeCalls(x, y) ELSE <<>>
        IN  IF RoutedUp(x, y, k)
            THEN /\ LayerHolds(upperLayer[k + 1], calls)
                 /\ LayerHolds(lowerLayer[k + 1], edge)
            ELSE /\ LayerHolds(upperLayer[k + 1], <<>>)
                 /\ LayerHolds(lowerLayer[k + 1], edge \o calls)

\* C24: for each plane k in 0..3 the commands of the plane-k tile of a cell
\* go only to upper layer k when the tile's flags have bit 0x10 set and only
\* to lower layer k otherwise, each plane on its own; when the overpass
\* predicate holds for the cell, the planes 2 and 3 go to the upper layers 2
\* and 3 whatever the flag; with the default predicate this never happens;
\* no command of plane k lands in a layer of another index.
C24_LayerRouting ==
    rcall.op = "paintTiles" => RoutedCell(rcall.x, rcall.y)

\* A cell was painted under an override that holds: its plane-0 tile is
\* higher and in upper layer 0, its plane-1 tile is not and in lower layer
\* 1, and its plane-2 tile, not higher either, is in upper layer 2.
C24_Witness ==
    /\ rcall.op = "paintTiles"
    /\ overpass
    /\ flags = "table"
    /\ CellRead(rcall.x, rcall.y, 0) = 1
    /\ CellRead(rcall.x, rcall.y, 1) = 2
    /\ CellRead(rcall.x, rcall.y, 2) = 2
    /\ CmdCount(upperLayer[1]) = 1 /\ CmdCount(lowerLayer[1]) = 0
    /\ CmdCount(lowerLayer[2]) = 1 /\ CmdCount(upperLayer[2]) = 0
    /\ CmdCount(upperLayer[3]) = 1 /\ CmdCount(lowerLayer[3]) = 0

(***************************************************************************)
(* Properties of the tileset slots (SpecDraw).                             *)
(***************************************************************************)
\* The bands of the nine slots as the specification lists them, and as the
\* host's list of tileset images has them.
SlotBandsListed == <<"A5", "A1", "A2", "A3", "A4", "B", "C", "D", "E">>
SlotBandsUsed == <<"A1", "A2", "A3", "A4", "A5", "B", "C", "D", "E">>

\* A visible tile of one of the nine bands was drawn on a cleared layer
\* that holds the buffers of all nine slots.
BandTileDrawn ==
    /\ dcall.op = "draw"
    /\ Len(dlayer.children) = 9
    /\ dcall.tileId > 0
    /\ \E b \in BandNames \ {"invisible"} : InDocumentedRange(b, dcall.tileId)

\* Every command of the tile drawn is in the buffer of the slot of the
\* tile's band under the given order of the bands, and (unless the draw
\* threw) there is such a command.
RoutedToSlotOf(order) ==
    /\ \A j \in 1..9 :
           Len(dlayer.children[j].pointsBuf) > 0 => InDocumentedRange(order[j], dcall.tileId)
    /\ ~dcall.err => dcall.added > 0

\* C25: every visible tile is routed to the texture slot of its band, the
\* slot indices 0..8 being the bands A5, A1, A2, A3, A4, B, C, D, E in that
\* order.
C25_SlotAssignment == BandTileDrawn => RoutedToSlotOf(SlotBandsListed)

\* C25 as amended: every visible tile of a band is drawn under the slot
\* index of its band, the slot indices 0..8 being the bands A1, A2, A3, A4,
\* A5, B, C, D, E in that order; on a layer that holds the buffers of all
\* nine slots every command of the tile is in the buffer of that index.
C25_SlotAssignmentInImageOrder == BandTileDrawn => RoutedToSlotOf(SlotBandsUsed)

\* An A5 tile was drawn into the buffer of slot 4.
C25_Witness ==
    /\ BandTileDrawn
    /\ dcall.tileId = TILE_ID_A5
    /\ Len(dlayer.children[5].pointsBuf) = 1
    /\ dcall.added = 1

(***************************************************************************)
(* SpecClock: a ShaderTilemap built by LevelLoader.load on a scene with an *)
(* animated tile, whose host calls updateDelta with the time elapsed since *)
(* the last call.                                                          *)
(***************************************************************************)
\* Bound of SpecClock: the time that passes in a behaviour, in units of
\* 1 / DefaultFps seconds.
MaxElapsed == 400

\* The times passed to updateDelta: nothing, one unit, less than an
\* interval, an interval less one, an interval, an interval and one, more
\* than two intervals, and more than a whole cycle of the counter.
ClockDeltas == {0, 1, 7, 29, 30, 31, 75, 365}

\* The scene: an A1 tile (animated) above an A2 tile, all images present.
ClockLevels == {[map |-> MixedMap, tilesetNames |-> SlotImages, flags |-> "plain"]}

InitClock == LoadedFrom(ClockLevels)

\* tilemap.updateDelta(delta): the counter is advanced, the frame is read
\* off it, and updateTileAnim assigns the array [x, y] to the field tileAnim
\* of the lower and upper layers.
UpdateDelta(delta) ==
    /\ elapsed + delta <= MaxElapsed
    /\ elapsed' = elapsed + delta
    /\ \E c \in {counterUpdateDelta(animationCount, delta)} :
       \E anim \in {tileAnimOf(c.current)} :
        /\ animationCount' = c
        /\ animationFrame' = c.current
        /\ layerAnim' = [array |-> TRUE, x |-> anim.x, y |-> anim.y]
    /\ rcall' = [op |-> "updateDelta", force |-> FALSE, painted |-> FALSE, err |-> FALSE,
                 prev |-> KindOf(rcall)]
    /\ UNCHANGED <<bitmaps, flags, mapData, origin, scrollOrigin, horizontalWrap,
                   verticalWrap, paintAll, width, height, lastBitmapLength, lastStart,
                   lowerLayer, upperLayer, shadowLayer, position, changes,
                   layerVars, geomVars, drawVars, routeVars, pipeVars, offsetVars,
                   boundsVars, pipesVars, viewVars>>

\* The composite layer after the pipe has visited its buffers: addRenderable
\* and updateRenderable leave _didTilemapUpdate false on each.
RenderedLayer(lay) ==
    [lay EXCEPT !.children =
        <<>> \o [i \in 1..Len(lay.children) |->
                    [lay.children[i] EXCEPT !.didTilemapUpdate = FALSE]]]

\* The buffers of the lower and upper layers.
AnimBuffers(lower, upper) ==
    UNION {{lower[k].children[i] : i \in 1..Len(lower[k].children)} : k \in 1..4}
    \cup UNION {{upper[k].children[i] : i \in 1..Len(upper[k].children)} : k \in 1..4}

\* One frame is drawn: the pipe visits every buffer of the nine layers.
ClockRender ==
    /\ \E k \in 1..4 :
           \/ \E i \in 1..Len(lowerLayer[k].children) :
                  lowerLayer[k].children[i].didTilemapUpdate
           \/ \E i \in 1..Len(upperLayer[k].children) :
                  upperLayer[k].children[i].didTilemapUpdate
    /\ lowerLayer' = <<>> \o [k \in 1..4 |-> RenderedLayer(lowerLayer[k])]
    /\ upperLayer' = <<>> \o [k \in 1..4 |-> RenderedLayer(upperLayer[k])]
    /\ shadowLayer' = RenderedLayer(shadowLayer)
    /\ rcall' = [op |-> "render", force |-> FALSE, painted |-> FALSE, err |-> FALSE,
                 prev |-> KindOf(rcall)]
    /\ UNCHANGED <<bitmaps, flags, mapData, origin, scrollOrigin, horizontalWrap,
                   verticalWrap, paintAll, width, height, lastBitmapLength, lastStart,
                   position, changes, layerVars, geomVars, drawVars, routeVars, clockVars,
                   pipeVars, offsetVars, boundsVars, pipesVars, viewVars>>

NextClock ==
    \/ \E delta \in ClockDeltas : UpdateDelta(delta)
    \/ ClockRender

SpecClock == InitClock /\ [][NextClock]_vars

(***************************************************************************)
(* Properties of the animation clock (SpecClock).                          *)
(***************************************************************************)
\* C26: for any sequence of updateDelta calls with non-negative elapsed
\* times, the counter equals floor(total elapsed time / step interval)
\* mod 12, so it lies in 0..11, and the leftover time kept is at least 0 and
\* less than one interval; how the total is split across the calls makes
\* no difference.
C26_ClockNoDrift ==
    /\ animationCount.current
           = (elapsed \div animationCount.inteval) % AnimationBound
    /\ animationCount.current \in 0..11
    /\ animationCount.cumulated >= 0
    /\ animationCount.cumulated < animationCount.inteval
    /\ animationCount.cumulated = elapsed % animationCount.inteval

\* The counter has gone round: more than twelve intervals have passed, in
\* calls that left time over.
C26_Witness ==
    /\ elapsed > AnimationBound * animationCount.inteval
    /\ animationCount.current = 1
    /\ animationCount.cumulated = 7

\* In a call of updateDelta the counter advances by one step for every
\* whole multiple of the interval (in units of 1 / DefaultFps seconds) that
\* the accumulated time passes, however the time is cut into calls.
CadenceStep(interval) ==
    rcall'.op = "updateDelta" =>
        animationCount'.current
            = (animationCount.current + (elapsed' \div interval) - (elapsed \div interval))
                  % AnimationBound

\* C27: the animation counter of the tilemap advances by exactly 30 steps
\* per second of accumulated elapsed time (one step per 1/30 s), whatever
\* the frame rate at which updateDelta is called.
C27_ClockCadence == [][CadenceStep(DefaultFps \div 30)]_vars

\* C27 as amended: the counter advances by exactly one step per
\* 30 / DefaultFps = 0.5 seconds of accumulated elapsed time (2 steps per
\* second), whatever the frame rate at which updateDelta is called.
C27_ClockCadenceHalfSecond == [][CadenceStep(AnimationInterval)]_vars

\* One second has passed, in calls of different lengths, and the counter
\* stands at 2.
C27_Witness ==
    /\ rcall.op = "updateDelta"
    /\ elapsed = DefaultFps
    /\ animationCount.current = 2
    /\ animationCount.cumulated = 0

\* The animation frame was handed to the layers by the last call.
FrameHandedOver == rcall.op = "updateDelta" /\ layerAnim.array

\* C28: for every counter value frame in 0..11, the animation frame handed
\* to the layers has the column index floor(frame / 4) mod 3 and the row
\* index frame mod 4 with the value 3 remapped to 1, each scaled by the tile
\* size on its axis.
C28_FrameDerivation ==
    FrameHandedOver =>
        /\ animationFrame \in 0..11
        /\ layerAnim.x = ((animationFrame \div 4) % 3) * tileWidth
        /\ layerAnim.y = <<0, 1, 2, 1>>[(animationFrame % 4) + 1] * tileHeight

\* C28 as amended: for every counter value frame in 0..11, the animation
\* offset handed to updateTileAnim is x = r * tileWidth, where r is
\* frame mod 4 with the value 3 remapped to 1, and y = (frame mod 3) *
\* tileHeight.
C28_FrameDerivationByRemainders ==
    FrameHandedOver =>
        /\ animationFrame \in 0..11
        /\ animationFrame = animationCount.current
        /\ layerAnim.x = <<0, 1, 2, 1>>[(animationFrame % 4) + 1] * tileWidth
        /\ layerAnim.y = (animationFrame % 3) * tileHeight

\* The frame 11 was handed over: x is one tile (3 remapped to 1) and y is
\* two tiles.
C28_Witness ==
    /\ FrameHandedOver
    /\ animationFrame = 11
    /\ layerAnim.x = tileWidth
    /\ layerAnim.y = 2 * tileHeight

\* C29: after updateDelta changes the animation frame, every batch buffer of
\* every lower and upper composite layer has its tileAnim equal to the new
\* (x, y) offset, and every such buffer that holds an animated tile is
\* marked dirty so that its geometry is rebuilt with the new offset before
\* the next draw.
C29_AnimReachesBuffers ==
    [][(rcall'.op = "updateDelta" /\ animationFrame' # animationFrame) =>
           \A b \in AnimBuffers(lowerLayer', upperLayer') :
               /\ b.tileAnim = [x |-> layerAnim'.x, y |-> layerAnim'.y]
               /\ b.hasAnimatedTile => b.didTilemapUpdate]_vars

\* What the program does instead: updateDelta leaves every buffer as it
\* was, so the tileAnim of every buffer stays (0, 0) and a buffer that was
\* drawn stays clean.
AnimStaysInLayerField ==
    /\ [](\A b \in AnimBuffers(lowerLayer, upperLayer) : b.tileAnim = [x |-> 0, y |-> 0])
    /\ [][rcall'.op = "updateDelta" =>
              lowerLayer' = lowerLayer /\ upperLayer' = upperLayer]_vars

\* An animated buffer was drawn and the frame then moved on.
AnimatedBufferLeftClean ==
    /\ rcall.op = "updateDelta"
    /\ animationFrame # 0
    /\ \E b \in AnimBuffers(lowerLayer, upperLayer) :
           b.hasAnimatedTile /\ ~b.didTilemapUpdate

(***************************************************************************)
(* SpecPipe: one batch buffer under tile() and clear(), interleaved with   *)
(* the render pipe's validateRenderable, addRenderable and                 *)
(* updateRenderable.  `kept` is tilemapData.geometry, made when the pipe   *)
(* first meets the buffer; `built` names the geometry attached to the      *)
(* batchable mesh.                                                         *)
(***************************************************************************)
InitPipe == InitGeom

\* TilemapPipe._getTilemapData: tilemapData.geometry, built from the buffer
\* as it is when the pipe first meets it.
getTilemapData(tm, geometry) ==
    IF geometry.none THEN computeGeometriesBatched(tm, NoGeometry).geometry ELSE geometry

\* What validateRenderable may return.  With a mesh whose texture is of
\* another source the answer is the batcher's.
validateRenderable(tm, p) ==
    IF tm.didTilemapUpdate THEN {"true"}
    ELSE IF ~p.mesh THEN {"true"}
    ELSE IF p.texture # tm.baseTexture.source THEN {"true", "false"}
    ELSE {"false"}

\* The rebuild of addRenderable and updateRenderable: the geometry is
\* computed with tilemapData.geometry handed in and attached to the mesh.
Rebuild(data) ==
    \E r \in {computeGeometriesBatched(tilemap, data)} :
        /\ IF r.isNew
           THEN kept' = data /\ latest' = r.geometry /\ built' = "latest"
           ELSE kept' = r.geometry /\ built' = "kept" /\ UNCHANGED latest
        /\ tilemap' = [tilemap EXCEPT !.didTilemapUpdate = FALSE]

\* pipe.validateRenderable(tilemap)
PValidate ==
    /\ kept' = getTilemapData(tilemap, kept)
    /\ \E ret \in validateRenderable(tilemap, pipe) : pipe' = [pipe EXCEPT !.ret = ret]
    /\ gcall' = "validate"
    /\ UNCHANGED <<tilemap, latest, built, layerVars, drawVars, rendVars, routeVars,
                   clockVars, offsetVars, boundsVars, pipesVars, viewVars>>

\* pipe.addRenderable(tilemap, instructionSet)
PAdd ==
    /\ IF tilemap.didTilemapUpdate
       THEN /\ Rebuild(getTilemapData(tilemap, kept))
            /\ pipe' = [mesh |-> TRUE, texture |-> tilemap.baseTexture.source, ret |-> "done"]
       ELSE /\ kept' = getTilemapData(tilemap, kept)
            /\ pipe' = [pipe EXCEPT !.mesh = TRUE, !.ret = "done"]
            /\ UNCHANGED <<tilemap, latest, built>>
    /\ gcall' = "add"
    /\ UNCHANGED <<layerVars, drawVars, rendVars, routeVars, clockVars, offsetVars,
                   boundsVars, pipesVars, viewVars>>

\* pipe.updateRenderable(tilemap): throws when the mesh is missing.
PUpdate ==
    /\ IF ~pipe.mesh
       THEN /\ kept' = getTilemapData(tilemap, kept)
            /\ pipe' = [pipe EXCEPT !.ret = "threw"]
            /\ UNCHANGED <<tilemap, latest, built>>
       ELSE IF tilemap.didTilemapUpdate
       THEN /\ Rebuild(getTilemapData(tilemap, kept))
            /\ pipe' = [mesh |-> TRUE, texture |-> tilemap.baseTexture.source, ret |-> "done"]
       ELSE /\ kept' = getTilemapData(tilemap, kept)
            /\ pipe' = [pipe EXCEPT !.ret = "done"]
            /\ UNCHANGED <<tilemap, latest, built>>
    /\ gcall' = "update"
    /\ UNCHANGED <<layerVars, drawVars, rendVars, routeVars, clockVars, offsetVars,
                   boundsVars, pipesVars, viewVars>>

NextPipe ==
    \/ GTile
    \/ GClear
    \/ PValidate
    \/ PAdd
    \/ PUpdate

SpecPipe == InitPipe /\ [][NextPipe]_vars

(***************************************************************************)
(* Properties of the render pipe (SpecPipe).                               *)
(***************************************************************************)
\* The geometry attached to the batchable mesh.
AttachedGeometry == IF built = "kept" THEN kept ELSE IF built = "latest" THEN latest
                    ELSE NoGeometry

\* The attached geometry has one quad for each command of the list.
OneQuadPerCommand ==
    LET g == AttachedGeometry
        n == Len(tilemap.pointsBuf)
    IN  /\ pipe.mesh
        /\ ~g.none
        /\ Len(g.positions) = 8 * n
        /\ Len(g.uvs) = 8 * n
        /\ Len(g.indices) = 6 * n
        /\ \A k \in 1..(8 * n) : g.positions[k] = PositionAt(tilemap, k - 1)
        /\ \A k \in 1..(6 * n) : g.indices[k] = IndexAt(k - 1)

\* C30: every tile() and clear() on a batch buffer sets its dirty flag; for
\* any interleaving of tile()/clear() with the pipe's validateRenderable,
\* addRenderable and updateRenderable calls, validateRenderable requests a
\* rebuild whenever the flag is set, and whenever the flag is clear after
\* addRenderable or updateRenderable the geometry attached to the buffer's
\* batchable mesh has exactly one quad per command of the current list.
C30_DirtyFlagLazyRebuild ==
    /\ gcall \in {"tile", "clear"} => tilemap.didTilemapUpdate
    /\ (gcall = "validate" /\ tilemap.didTilemapUpdate) => pipe.ret = "true"
    /\ ~tilemap.didTilemapUpdate => OneQuadPerCommand

\* The pipe met the buffer when it held two commands; the list was then
\* cleared and given one command, and the rebuild of updateRenderable cut
\* the kept geometry down to one quad.
C30_Witness ==
    /\ gcall = "update"
    /\ ~tilemap.didTilemapUpdate
    /\ built = "kept"
    /\ Len(tilemap.pointsBuf) = 1
    /\ kept.cap = 2 * 8
    /\ Len(kept.positions) = 8

(***************************************************************************)
(* Properties of the backing storage (SpecPipe).                           *)
(***************************************************************************)
\* A step of addRenderable or updateRenderable that rebuilds the geometry.
RebuildStep ==
    /\ gcall' \in {"add", "update"}
    /\ tilemap.didTilemapUpdate
    /\ ~tilemap'.didTilemapUpdate

\* C31: across any sequence of rebuilds with growing and shrinking command
\* counts, a rebuild that is handed the previously used geometry allocates
\* no new arrays whenever the capacity of that geometry's arrays is at least
\* the required size (8 floats per command for positions), taking only a
\* subrange view of them, and allocates new arrays only when the required
\* size exceeds the largest capacity allocated so far.
C31_StorageReuse ==
    [][RebuildStep =>
          LET data == getTilemapData(tilemap, kept)
              need == 8 * Len(tilemap.pointsBuf)
          IN  /\ data.cap >= need => (built' = "kept" /\ kept'.cap = data.cap)
              /\ built' = "latest" => need > data.cap]_vars

\* What the program does instead: the geometry handed in is reused exactly
\* when the current length of its positions array, which an earlier rebuild
\* may have cut down to a view, is greater than the required size.
ReusedOnlyWhenLonger ==
    [][RebuildStep =>
          LET data == getTilemapData(tilemap, kept)
              need == 8 * Len(tilemap.pointsBuf)
          IN  built' = "kept" <=> Len(data.positions) > need]_vars

(***************************************************************************)
(* SpecOffset: one CompositeTilemap under tileset(), tile(), clear() and   *)
(* setTileAnim().                                                          *)
(***************************************************************************)
\* The lists tileset() is called with.
OffsetLists == {<<TexA>>, <<TexA, TexB>>}

\* The first argument of tile(): the shadow sentinel, a slot, a texture.
OffsetRefs == ShadowRefs \cup {NumRef(0), NumRef(1)} \cup {TexRef(TexB)}

\* The tiles added: a plain one and an animated one.
OffsetTiles == LayerTiles

\* The offsets setTileAnim() is called with.
OffsetAnims == {[x |-> 0, y |-> 0], [x |-> 48, y |-> 0], [x |-> 48, y |-> 96]}

InitOffset == InitLayer

\* CompositeTilemap.setTileAnim(value): [tileAnim, layer] afterwards.
CompositeSetTileAnim(lay, anim, value) ==
    IF anim.x # value.x \/ anim.y # value.y
    THEN [tileAnim |-> value,
          layer |-> [lay EXCEPT !.children =
                       <<>> \o [i \in 1..Len(lay.children) |->
                                   TilemapSetTileAnim(lay.children[i], value)]]]
    ELSE [tileAnim |-> anim, layer |-> lay]

OSetTileAnim(value) ==
    /\ \E r \in {CompositeSetTileAnim(layer, compositeTileAnim, value)} :
           /\ compositeTileAnim' = r.tileAnim
           /\ layer' = r.layer
    /\ lcall' = [op |-> "setTileAnim", list |-> <<>>, ref |-> NumRef(0), err |-> FALSE]
    /\ UNCHANGED <<fresh, shadowUsed, geomVars, drawVars, rendVars, routeVars, clockVars,
                   pipeVars, boundsVars, pipesVars, viewVars>>

\* One frame is drawn: the pipe visits every buffer of the layer.
ORender ==
    /\ \E i \in 1..Len(layer.children) : layer.children[i].didTilemapUpdate
    /\ layer' = RenderedLayer(layer)
    /\ lcall' = [op |-> "render", list |-> <<>>, ref |-> NumRef(0), err |-> FALSE]
    /\ UNCHANGED <<fresh, shadowUsed, geomVars, drawVars, rendVars, otherVars>>

NextOffset ==
    \/ \E list \in OffsetLists : LTileset(list)
    \/ \E ref \in OffsetRefs, t \in OffsetTiles : LTile(ref, t)
    \/ LClear
    \/ \E value \in OffsetAnims : OSetTileAnim(value)
    \/ ORender

SpecOffset == InitOffset /\ [][NextOffset]_vars

(***************************************************************************)
(* Properties of the composite layer with its offset (SpecOffset).         *)
(***************************************************************************)
\* C32: clear() on a composite layer leaves every one of its buffers with
\* an empty command list, an empty bounding box, no animated-tile mark and
\* the dirty flag set, and leaves unchanged the number and order of the
\* buffers, the texture bound to each buffer, the reserved shadow buffer
\* index and the layer's animation offset.
C32_ClearFrame ==
    [][lcall'.op = "clear" =>
          /\ \A i \in 1..Len(layer'.children) :
                 LET b == layer'.children[i]
                 IN  /\ b.pointsBuf = <<>>
                     /\ b.tilemapBounds.empty
                     /\ ~b.hasAnimatedTile
                     /\ b.didTilemapUpdate
          /\ Len(layer'.children) = Len(layer.children)
          /\ \A i \in 1..Len(layer.children) :
                 /\ layer'.children[i].baseTexture = layer.children[i].baseTexture
                 /\ layer'.children[i].tileAnim = layer.children[i].tileAnim
          /\ layer'.shadowId = layer.shadowId
          /\ compositeTileAnim' = compositeTileAnim]_vars

\* A layer with two buffers, the second the shadow buffer, which held a
\* tile, was cleared after its offset had been set; the buffers are dirty.
C32_Witness ==
    /\ lcall.op = "clear"
    /\ Len(layer.children) = 2
    /\ layer.shadowId = 1
    /\ shadowUsed
    /\ compositeTileAnim = [x |-> 48, y |-> 96]
    /\ layer.children[1].tileAnim = [x |-> 48, y |-> 96]
    /\ layer.children[1].didTilemapUpdate

\* C35: after any sequence of setTileAnim(), tileset() and tile() calls,
\* every buffer of the layer, including buffers created lazily after the
\* last setTileAnim() (by a new texture or by the first shadow tile), has a
\* tileAnim equal to the composite layer's tileAnim.
C35_OffsetConsistency ==
    \A i \in 1..Len(layer.children) : layer.children[i].tileAnim = compositeTileAnim

\* What the program does instead: setTileAnim() hands the value to the
\* buffers that exist when it is called and changes the layer's offset.
OffsetReachesExistingBuffers ==
    [][(lcall'.op = "setTileAnim" /\ compositeTileAnim' # compositeTileAnim) =>
          /\ Len(layer'.children) = Len(layer.children)
          /\ \A i \in 1..Len(layer'.children) :
                 layer'.children[i].tileAnim = compositeTileAnim']_vars

(***************************************************************************)
(* The reserved shadow buffer (SpecLayer).                                 *)
(***************************************************************************)
\* C36: after any sequence of tileset() and tile() calls on a composite
\* layer, every command in the reserved shadow buffer was added by a
\* tile(-1, ...) call; a tile added through an integer slot (including the
\* fallback to buffer 0) or through a texture reference is never appended
\* to the shadow buffer.
C36_ShadowBufferExclusive ==
    [][(lcall'.op = "tile" /\ lcall'.ref # NumRef(-1) /\ layer.shadowId # -1) =>
          /\ layer'.shadowId = layer.shadowId
          /\ Child(layer', layer.shadowId).pointsBuf
                 = Child(layer, layer.shadowId).pointsBuf]_vars

\* What holds instead: a tile added through a texture reference of another
\* image than the shadow texture's never reaches the shadow buffer.
TextureTileKeepsShadowBuffer ==
    [][(lcall'.op = "tile" /\ lcall'.ref.kind \in {"tex", "str"}
            /\ layer.shadowId # -1) =>
          Child(layer', layer.shadowId).pointsBuf
              = Child(layer, layer.shadowId).pointsBuf]_vars

(***************************************************************************)
(* The quadrants of an autotile (SpecDraw).                                *)
(***************************************************************************)
\* An autotile was drawn on a cleared layer that holds the buffers of all
\* nine slots.
AutotileDrawn ==
    /\ dcall.op = "draw"
    /\ Len(dlayer.children) = 9
    /\ isVisibleTile(dcall.tileId)
    /\ isAutotile(dcall.tileId)

\* The quad of a command: where it is drawn, its size, and where it is
\* taken from.
QuadOf(p) == [x |-> p.x, y |-> p.y, tileWidth |-> p.tileWidth, tileHeight |-> p.tileHeight,
              u |-> p.u, v |-> p.v]

\* The quads of the buffer the autotile drawn was routed to.
QuadsDrawn ==
    LET buf == dlayer.children[autotileSetNumber(dcall.tileId) + 1].pointsBuf
    IN  <<>> \o [j \in 1..Len(buf) |-> QuadOf(buf[j])]

\* The quads of quadrant i of the autotile drawn, whose table row is `row`:
\* two for a quadrant of source row 1 or 5 of a table tile, the upper one
\* `upperHeight` high and mirrored when `mirrored` has the source row;
\* otherwise one.
QuadrantQuads(row, i, upperHeight, mirrored) ==
    LET a   == autotileParams(FlagArrays[dflags], dcall.tileId)
        w1  == tileWidth \div 2
        h1  == tileHeight \div 2
        qsx == row[i + 1][1]
        qsy == row[i + 1][2]
        dx1 == (i % 2) * w1
        dy1 == (i \div 2) * h1
        own == [x |-> dx1, y |-> dy1, tileWidth |-> w1, tileHeight |-> h1,
                u |-> (a.bx * 2 + qsx) * w1, v |-> (a.by * 2 + qsy) * h1]
    IN  IF isTableTile(FlagArrays[dflags], dcall.tileId) /\ qsy \in {1, 5}
        THEN <<[own EXCEPT !.tileHeight = upperHeight,
                           !.u = (a.bx * 2 + (IF qsy \in mirrored THEN (4 - qsx) % 4
                                              ELSE qsx)) * w1,
                           !.v = (a.by * 2 + 3) * h1],
               [own EXCEPT !.y = dy1 + (h1 \div 2), !.tileHeight = h1 \div 2]>>
        ELSE <<own>>

\* The quads of the four quadrants, in order.
AutotileQuads(row, upperHeight, mirrored) ==
    QuadrantQuads(row, 0, upperHeight, mirrored)
        \o QuadrantQuads(row, 1, upperHeight, mirrored)
        \o QuadrantQuads(row, 2, upperHeight, mirrored)
        \o QuadrantQuads(row, 3, upperHeight, mirrored)

\* The table row of the autotile drawn, if its table has one.
RowDrawn ==
    LET table == autotileParams(FlagArrays[dflags], dcall.tileId).autotileTable
        shape == getAutotileShape(dcall.tileId)
    IN  IF shape + 1 \in DOMAIN table THEN <<table[shape + 1]>> ELSE <<>>

\* C33: when the decoded tile is a table tile and a quadrant's source row
\* qsy is 1 or 5, that quadrant is rendered as exactly two stacked
\* half-height slices, the upper slice taken from source row 3 with the
\* mirrored horizontal index (4 - qsx) mod 4, the lower slice taken from
\* the quadrant's own source coordinates; every other quadrant of any
\* autotile is rendered as exactly one quad of half tile width by half tile
\* height at offset ((i mod 2)*w/2, floor(i/2)*h/2).
C33_TableQuadrants ==
    AutotileDrawn =>
        /\ RowDrawn # <<>>
        /\ QuadsDrawn = AutotileQuads(RowDrawn[1], tileHeight \div 4, {1, 5})

\* What holds instead, for every autotile whose draw does not throw: the
\* upper quad of a table quadrant has the full quadrant height (the lower
\* one is drawn over its lower half), and its horizontal index is mirrored
\* for the source row 1 only.
TableQuadrantsAsDrawn ==
    (AutotileDrawn /\ ~dcall.err) =>
        /\ RowDrawn # <<>>
        /\ QuadsDrawn = AutotileQuads(RowDrawn[1], tileHeight \div 2, {1})

(***************************************************************************)
(* The buffers and the bitmap list (Spec).                                 *)
(***************************************************************************)
\* Buffer i (0-based) of the layer exists and is bound to the image.
BoundTo(lay, i, image) ==
    /\ ChildExists(lay, i)
    /\ Child(lay, i).baseTexture.source = image

\* C34: after every refresh(), for every tileset slot i whose image is
\* present in the renderer's bitmaps list, buffer i of each of the 4 lower
\* and 4 upper composite layers exists and is bound to the image resource
\* of bitmaps[i]; this holds after any sequence of changes to the bitmaps
\* list (growing it, replacing entries while keeping its length, leaving
\* gaps for missing images) each followed by refresh().
C34_BuffersFollowBitmaps ==
    rcall.op = "refresh" =>
        \A i \in 0..(Len(bitmaps) - 1) :
            bitmaps[i + 1] # "undefined" =>
                \A k \in 1..4 : /\ BoundTo(lowerLayer[k], i, bitmaps[i + 1])
                                /\ BoundTo(upperLayer[k], i, bitmaps[i + 1])

\* What holds instead: after a refresh() that did not throw and found the
\* length of the list changed, the buffers of each layer begin with one
\* buffer for each image present, in the order of the list, the missing
\* ones left out; buffers of earlier lists may follow.
BuffersFollowPresentImages ==
    [][(rcall'.op = "refresh" /\ ~rcall'.err /\ lastBitmapLength # Len(bitmaps)) =>
          LET list == presentSources(bitmaps)
          IN  \A i \in 0..(Len(list) - 1) :
                  \A k \in 1..4 :
                      /\ BoundTo(lowerLayer'[k], i, list[i + 1].source)
                      /\ BoundTo(upperLayer'[k], i, list[i + 1].source)]_vars

(***************************************************************************)
(* SpecBounds: one batch buffer under tile() and clear(), whose bounds are *)
(* read (the getter `bounds` calls updateBounds(), as addBounds() does)    *)
(* and whose containsPoint() is called.  The behaviours start after the    *)
(* first read of `bounds`, which leaves _bounds empty as tilemapBounds is. *)
(***************************************************************************)
\* The points containsPoint() is called with: a corner of the first tile,
\* points strictly inside the first and the second tile, a point far off.
BoundsPoints == {[x |-> 0, y |-> 0], [x |-> 12, y |-> 12], [x |-> 30, y |-> 20],
                 [x |-> 100, y |-> 100]}

InitBounds == InitGeom

\* Tilemap.updateBounds(): _bounds takes the four sides of tilemapBounds.
updateBounds(tm) == tm.tilemapBounds

\* Tilemap.containsPoint(point) on the _bounds b.  Empty bounds have the
\* sides minX = minY = +Infinity and maxX = maxY = -Infinity.
containsPoint(b, point) ==
    IF b.empty THEN TRUE
    ELSE /\ point.x >= b.maxX /\ point.x <= b.minX
         /\ point.y >= b.maxY /\ point.y <= b.minY

\* tilemap.bounds is read (addBounds() does).
BReadBounds ==
    /\ viewBounds # updateBounds(tilemap)
    /\ viewBounds' = updateBounds(tilemap)
    /\ gcall' = "bounds"
    /\ UNCHANGED <<tilemap, kept, latest, built, hit, layerVars, drawVars, rendVars,
                   routeVars, clockVars, pipeVars, offsetVars, pipesVars, viewVars>>

\* tilemap.containsPoint(point)
BContainsPoint(point) ==
    /\ hit' = [point |-> point, ret |-> containsPoint(viewBounds, point)]
    /\ gcall' = "containsPoint"
    /\ UNCHANGED <<tilemap, kept, latest, built, viewBounds, layerVars, drawVars, rendVars,
                   routeVars, clockVars, pipeVars, offsetVars, pipesVars, viewVars>>

NextBounds ==
    \/ GTile
    \/ GClear
    \/ BReadBounds
    \/ \E point \in BoundsPoints : BContainsPoint(point)

SpecBounds == InitBounds /\ [][NextBounds]_vars

(***************************************************************************)
(* Properties of containsPoint() (SpecBounds).                             *)
(***************************************************************************)
\* The point lies strictly inside the quad of the command.
StrictlyInside(point, p) ==
    /\ p.x < point.x /\ point.x < p.x + p.tileWidth
    /\ p.y < point.y /\ point.y < p.y + p.tileHeight

\* C37: containsPoint(p) on a batch buffer returns true exactly when p lies
\* inside the buffer's bounds, i.e. minX <= p.x <= maxX and minY <= p.y <=
\* maxY; in particular it returns true for a point strictly inside the quad
\* of any command of the buffer.
C37_ContainsPoint ==
    gcall = "containsPoint" =>
        LET b == tilemap.tilemapBounds
        IN  /\ hit.ret <=> /\ ~b.empty
                           /\ b.minX <= hit.point.x /\ hit.point.x <= b.maxX
                           /\ b.minY <= hit.point.y /\ hit.point.y <= b.maxY
            /\ (\E i \in 1..Len(tilemap.pointsBuf) :
                    StrictlyInside(hit.point, tilemap.pointsBuf[i])) => hit.ret

\* What holds instead: with the bounds read after the last tile(),
\* containsPoint() is false for every point when the buffer holds a
\* command (of positive size), and true for every point when it holds none.
ContainsPointInverted ==
    (gcall = "containsPoint" /\ viewBounds = tilemap.tilemapBounds) =>
        (hit.ret <=> tilemap.pointsBuf = <<>>)

(***************************************************************************)
(* SpecPipes: one batch buffer under tile() and clear(), tracked by two    *)
(* render pipes (two renderers).  Each pipe keeps its own record for the   *)
(* buffer; the dirty flag is a field of the buffer, shared by both.        *)
(***************************************************************************)
PipeIds == {1, 2}

InitPipes == InitGeom

\* _getTilemapData of a pipe: its record for the buffer, made on first touch.
pipeData(tm, rec) ==
    IF rec.data THEN rec
    ELSE [rec EXCEPT !.data = TRUE,
                     !.geometry = computeGeometriesBatched(tm, NoGeometry).geometry]

\* The rebuild of addRenderable and updateRenderable on the record: the
\* result is attached to the mesh; a geometry cut down in place stays the
\* record's.
rebuilt(tm, rec) ==
    LET r == computeGeometriesBatched(tm, rec.geometry)
    IN  [rec EXCEPT !.attached = r.geometry,
                    !.geometry = IF r.isNew THEN @ ELSE r.geometry]

\* pipe.addRenderable(tilemap, instructionSet) on pipe i
XAdd(i) ==
    /\ \E rec \in {[pipeData(tilemap, pipes[i]) EXCEPT !.mesh = TRUE]} :
       \E done \in {IF tilemap.didTilemapUpdate THEN rebuilt(tilemap, rec) ELSE rec} :
           /\ pipes' = [pipes EXCEPT ![i] = done]
           /\ submitted' = [pipe |-> i, geometry |-> done.attached]
    /\ tilemap' = [tilemap EXCEPT !.didTilemapUpdate = FALSE]
    /\ gcall' = "add"
    /\ UNCHANGED <<kept, latest, built, layerVars, drawVars, rendVars, routeVars, clockVars,
                   pipeVars, offsetVars, boundsVars, viewVars>>

\* pipe.updateRenderable(tilemap) on pipe i: throws when the mesh is missing.
XUpdate(i) ==
    /\ \E rec \in {pipeData(tilemap, pipes[i])} :
           IF ~rec.mesh
           THEN /\ pipes' = [pipes EXCEPT ![i] = rec]
                /\ gcall' = "threw"
                /\ UNCHANGED <<tilemap, submitted>>
           ELSE \E done \in {IF tilemap.didTilemapUpdate THEN rebuilt(tilemap, rec)
                             ELSE rec} :
                    /\ pipes' = [pipes EXCEPT ![i] = done]
                    /\ submitted' = [pipe |-> i, geometry |-> done.attached]
                    /\ tilemap' = [tilemap EXCEPT !.didTilemapUpdate = FALSE]
                    /\ gcall' = "update"
    /\ UNCHANGED <<kept, latest, built, layerVars, drawVars, rendVars, routeVars, clockVars,
                   pipeVars, offsetVars, boundsVars, viewVars>>

\* pipe.destroyRenderable(tilemap) on pipe i
XDestroy(i) ==
    /\ pipes[i].data
    /\ pipes' = [pipes EXCEPT ![i] = NoPipeRecord]
    /\ gcall' = "destroy"
    /\ UNCHANGED <<tilemap, kept, latest, built, submitted, layerVars, drawVars, rendVars,
                   routeVars, clockVars, pipeVars, offsetVars, boundsVars, viewVars>>

NextPipes ==
    \/ GTile
    \/ GClear
    \/ \E i \in PipeIds : XAdd(i)
    \/ XUpdate(1)
    \/ XDestroy(1)

SpecPipes == InitPipes /\ [][NextPipes]_vars

(***************************************************************************)
(* Properties of the two pipes (SpecPipes).                                *)
(***************************************************************************)
\* C38: for any interleaving of tile()/clear() on a tilemap with
\* addRenderable, updateRenderable and destroyRenderable on one pipe
\* (including destroyRenderable followed by a new addRenderable) and with
\* addRenderable on a second pipe tracking the same tilemap, each batchable
\* mesh handed to a batcher has a geometry set, and that geometry has
\* exactly one quad per command of the tilemap's current command list.
C38_SubmittedMeshCurrent ==
    gcall \in {"add", "update"} =>
        LET g == submitted.geometry
            n == Len(tilemap.pointsBuf)
        IN  /\ ~g.none
            /\ Len(g.positions) = 8 * n
            /\ Len(g.uvs) = 8 * n
            /\ Len(g.indices) = 6 * n

\* What holds instead: the mesh handed over by the call that found the
\* buffer dirty has one quad per command.
RebuiltMeshCurrent ==
    [][(gcall' \in {"add", "update"} /\ tilemap.didTilemapUpdate) =>
          LET g == submitted'.geometry
              n == Len(tilemap'.pointsBuf)
          IN  /\ ~g.none
              /\ Len(g.positions) = 8 * n
              /\ Len(g.uvs) = 8 * n
              /\ Len(g.indices) = 6 * n]_vars

\* The second pipe handed its batcher a mesh with no geometry set: the
\* first pipe had cleared the dirty flag before.
SecondPipeMeshWithoutGeometry ==
    /\ gcall = "add"
    /\ submitted.pipe = 2
    /\ submitted.geometry.none

(***************************************************************************)
(* SpecView: the map-tile webview (ColorsViewProvider) and the Blackboard. *)
(* The host sets activeMapName; resolveWebviewView starts the first        *)
(* refresh() and subscribes `refresh` to activeMapNameChange once that     *)
(* one has finished.  A refresh() in flight is at one of its awaits:       *)
(*   "tilesets"  the read of Tilesets.json                                 *)
(*   "map"       the read of the map file, named by activeMapName as it is *)
(*               when the read is started                                  *)
(*   "index"     the read of index.html, after the map URI was made from   *)
(*               activeMapName as it is then                               *)
(*   "empty"     buildHtmlForWebview has returned '' (no active map)       *)
(* and assigns webview.html when it is resumed from the last one.  The     *)
(* reads finish in any order.                                              *)
(***************************************************************************)
\* Bound of SpecView: how many times the host sets activeMapName.
MaxNameSets == 3

\* The names the host sets.
MapNames == {"Map001.json", "Map002.json"}

InitView == InitGeom

\* refresh() up to its first await, with activeMapName being `name`.
startRefresh(name, initial) ==
    [pc |-> IF name = "" THEN "empty" ELSE "tilesets",
     tileset |-> "", map |-> "", initial |-> initial]

\* The sequence without its element i.
Without(seq, i) == SubSeq(seq, 1, i - 1) \o SubSeq(seq, i + 1, Len(seq))

\* blackboard.activeMapName = name: the setter emits activeMapNameChange,
\* which calls refresh() when it is subscribed.
VSetName(name) ==
    /\ nameSets < MaxNameSets
    /\ nameSets' = nameSets + 1
    /\ activeMapName' = name
    /\ builds' = IF listening = "yes" THEN Append(builds, startRefresh(name, FALSE))
                 ELSE builds
    /\ UNCHANGED <<listening, html, layerVars, geomVars, drawVars, rendVars, routeVars,
                   clockVars, pipeVars, offsetVars, boundsVars, pipesVars>>

\* provider.resolveWebviewView(webviewView, ...) up to `await refresh()`.
VResolve ==
    /\ listening = "unresolved"
    /\ listening' = "no"
    /\ builds' = Append(builds, startRefresh(activeMapName, TRUE))
    /\ UNCHANGED <<activeMapName, html, nameSets, layerVars, geomVars, drawVars, rendVars,
                   routeVars, clockVars, pipeVars, offsetVars, boundsVars, pipesVars>>

\* The read that refresh() number i waits for finishes and it runs on to
\* its next await.
VRead(i) ==
    /\ i \in 1..Len(builds)
    /\ builds[i].pc \in {"tilesets", "map"}
    /\ builds' = [builds EXCEPT ![i] =
                    IF @.pc = "tilesets"
                    THEN [@ EXCEPT !.pc = "map", !.tileset = activeMapName]
                    ELSE [@ EXCEPT !.pc = "index", !.map = activeMapName]]
    /\ UNCHANGED <<activeMapName, listening, html, nameSets, layerVars, geomVars, drawVars,
                   rendVars, routeVars, clockVars, pipeVars, offsetVars, boundsVars,
                   pipesVars>>

\* refresh() number i is resumed from its last await and assigns
\* webview.html; resolveWebviewView, resumed by the first one, subscribes
\* `refresh`.
VAssign(i) ==
    /\ i \in 1..Len(builds)
    /\ builds[i].pc \in {"index", "empty"}
    /\ html' = [tileset |-> builds[i].tileset, map |-> builds[i].map]
    /\ listening' = IF builds[i].initial THEN "yes" ELSE listening
    /\ builds' = Without(builds, i)
    /\ UNCHANGED <<activeMapName, nameSets, layerVars, geomVars, drawVars, rendVars,
                   routeVars, clockVars, pipeVars, offsetVars, boundsVars, pipesVars>>

NextView ==
    \/ \E name \in MapNames : VSetName(name)
    \/ VResolve
    \/ \E i \in 1..(MaxNameSets + 1) : VRead(i)
    \/ \E i \in 1..(MaxNameSets + 1) : VAssign(i)

SpecView == InitView /\ [][NextView]_vars

(***************************************************************************)
(* Properties of the webview (SpecView).                                   *)
(***************************************************************************)
\* The html built for a map name ('' for no name).
HtmlFor(name) == [tileset |-> name, map |-> name]

\* C39: for any interleaving of activeMapName changes with the asynchronous
\* HTML rebuilds of a resolved, undisposed map-tile webview (including a
\* change that arrives while the initial build is still in flight, and two
\* rebuilds that complete out of order), once no rebuild is in flight the
\* webview's html is the one built for the most recently set activeMapName.
C39_ViewConverges ==
    (listening # "unresolved" /\ builds = <<>>) => html = HtmlFor(activeMapName)

\* A change arrived while the initial build was in flight and nobody
\* listened: the view shows no map although one is active.
MissedChange ==
    /\ listening = "yes"
    /\ builds = <<>>
    /\ nameSets = 1
    /\ html = NoHtml
    /\ activeMapName # ""

\* Two rebuilds completed out of order, or one read the name twice around a
\* change: the view shows one map's tiles under another map's address.
MixedHtml ==
    /\ builds = <<>>
    /\ html.tileset # html.map

====
